---------------------------- MODULE Spec2Model ----------------------------
(***************************************************************************)
(* Model of smash's ScatterActionsFinder (src/src/scatteractionsfinder.cc).*)
(*                                                                         *)
(* The finder is stateless apart from its configuration, so the state is   *)
(* the configuration fixed by the constructor, the record of the evaluator *)
(* call in flight (call), the position of the same-cell enumeration        *)
(* (cell) and of the neighbor or surrounding enumeration (cross), the      *)
(* decay tree of a cross-section query (tree) and its list of final-state  *)
(* cross sections (final_state_xs).  Real numbers are exact rationals [n, d] with d > 0.  A value   *)
(* that a call never obtained (it returned before asking for it) is        *)
(* NoVal.  The values supplied by collaborators outside this file          *)
(* (collision_time, the transverse distance, the cross section, the        *)
(* scaling factors, the relative velocity, the multi-body probability,     *)
(* the uniform draws) are drawn from the small sets below.                 *)
(***************************************************************************)
EXTENDS Integers, Sequences, FiniteSets, TLC

VARIABLES coll_crit_, testparticles_, N_tot_, N_proj_,
          nucleon_has_interacted_, call, cell, cross, tree,
          final_state_xs, xs_dump, scan, outcomes

vars == <<coll_crit_, testparticles_, N_tot_, N_proj_,
          nucleon_has_interacted_, call, cell, cross, tree,
          final_state_xs, xs_dump, scan, outcomes>>

config == <<coll_crit_, testparticles_, N_tot_, N_proj_,
            nucleon_has_interacted_>>

(***************************************************************************)
(* Bounds of the model.                                                    *)
(***************************************************************************)
\* particle ids are 0..MaxId
MaxId == 2
\* timestep lengths are 1..MaxDt
MaxDt == 2
\* a uniform draw is k/UDen
UDen == 2
\* last-process identifiers are 0..MaxProc
MaxProc == 1
\* a search list holds at most MaxList particles
MaxList == 3
\* the two lists of a neighbor or surrounding enumeration hold at most
\* MaxPool particles each
MaxPool == 2
\* the pole masses of the unstable particle types are 1..MaxMass
MaxMass == 3
\* the total energies of a cross-section query are 1..MaxSqrts
MaxSqrts == 8
\* a list handed to deduplicate on its own has at most MaxEntries entries
MaxEntries == 3
\* a caller hands dump_cross_sections at most MaxPoints momenta
MaxPoints == 2
\* the momenta handed over are 0..MaxPlab
MaxPlab == 2
\* the number of points scanned when no momenta are handed over (200 in
\* the code)
DefaultMomentumPoints == 2

(***************************************************************************)
(* Rational arithmetic standing for the code's double arithmetic.          *)
(***************************************************************************)
R(n, d) == [n |-> n, d |-> d]

NoVal == R(0, 0)

RMul(x, y) == R(x.n * y.n, x.d * y.d)

\* x / y for y > 0
RDiv(x, y) == R(x.n * y.d, x.d * y.n)

RLt(x, y) == x.n * y.d < y.n * x.d

RGt(x, y) == RLt(y, x)

RGe(x, y) == ~RLt(x, y)

Zero == R(0, 1)

One == R(1, 1)

(***************************************************************************)
(* Program constants.                                                      *)
(***************************************************************************)
Geometric == "Geometric"

Stochastic == "Stochastic"

Covariant == "Covariant"

CollisionCriterion == {Geometric, Stochastic, Covariant}

\* M_1_PI = 1/pi, with pi taken as PiNum/PiDen
PiNum == 22

PiDen == 7

M_1_PI == R(PiDen, PiNum)

\* fm2_mb = 0.1: mb to fm^2
fm2_mb == R(1, 10)

\* really_small = 1e-6
really_small == R(1, 1000000)

\* maximum_cross_section, in mb
maximum_cross_section == 200

(***************************************************************************)
(* Values the collaborators may supply.                                    *)
(***************************************************************************)
Ids == 0..MaxId

DtValues == 1..MaxDt

\* collision_time(): before the step, inside it, at its end
CollisionTimes == {R(t, 1) : t \in (0 - 1)..MaxDt}

\* cell volumes: none, below the noise threshold, two ordinary ones
CellVolumes == {R(0, 1), R(1, 2000000), R(10, 1), R(60, 1)}

\* transverse distances squared (fm^2), in 1/22 fm^2 so that the values
\* xs/pi and max_transverse_distance_sqr are hit exactly
D2Values == {R(k, 22) : k \in {0, 35, 70, 140, 175}}

\* ScatterAction::cross_section(), in mb
CrossSections == {R(0, 1), R(100, 1), R(300, 1)}

\* ParticleData::xsec_scaling_factor()
ScalingFactors == {Zero, One}

\* ScatterAction::relative_velocity()
RelativeVelocities == {Zero, One}

\* ScatterActionMulti::probability_multi()
MultiProbabilities == {Zero, R(1, 2), One, R(3, 2)}

\* ParticleData::id_process(): an unsigned identifier, 0 = no process yet
ProcessIds == 0..MaxProc

NoProc == 0 - 1

\* random::uniform(0., 1.): a value of the half-open interval [0, 1)
UniformDraws == {R(k, UDen) : k \in 0..(UDen - 1)}

\* the (N_tot, N_proj) a modus hands to the constructor: no nuclei, or three
\* initial nucleons of which one or two are the projectile's
NucleonCounts == {<<0, 0>>, <<3, 1>>, <<3, 2>>}

TestParticles == {1, 2}

\* the cell volumes handed to the pair evaluator and to the same-cell
\* enumeration: under the geometric and covariant criteria neither looks at
\* the argument, and one value stands for all
PairCellVolumes ==
  IF coll_crit_ = Stochastic THEN CellVolumes ELSE {NoVal}


(***************************************************************************)
(* The record of one evaluator call: what it was given and obtained on its *)
(* way (NoVal, NoProc, "unread": never obtained) and how it ended.         *)
(*   kind   "none" (nullptr), "action" (a descriptor), "fatal" (throw)     *)
(*   time   the descriptor's time_until_collision                          *)
(*   draws  the number of random::uniform draws consumed                   *)
(*   stage  the statement that ended the call                              *)
(***************************************************************************)
Idle ==
  [fn |-> "idle", ids |-> <<>>, dt |-> 0, cell_vol |-> NoVal, t |-> NoVal,
   d2 |-> NoVal, cs |-> NoVal, sa |-> NoVal, sb |-> NoVal, v_rel |-> NoVal,
   pa |-> NoProc, pb |-> NoProc, u |-> NoVal, u_time |-> NoVal,
   process_type |-> "unread", p_nm |-> NoVal,
   kind |-> "none", time |-> NoVal, draws |-> 0, stage |-> "idle"]

NoCell == [running |-> FALSE]

\* no neighbor or surrounding enumeration is running
NoCross == [running |-> FALSE]

\* no decay tree has been built, no list of final-state cross sections
NoTree == [built |-> FALSE]

NoList == [given |-> FALSE]

NoDump == [points |-> 0]

\* dump_cross_sections has not been called
NoScan == [status |-> "idle"]

\* what is not the finder's configuration, an evaluator call or the
\* same-cell enumeration
others == <<cross, tree, final_state_xs, xs_dump, scan, outcomes>>

(***************************************************************************)
(* check_collision_two_part, statement by statement.                       *)
(***************************************************************************)
\* a slip: the target-side half of the same-nucleus test is missing
SpectatorExcluded_ProjectileOnly(a, b) ==
  /\ a < N_tot_
  /\ b < N_tot_
  /\ (a < N_proj_ /\ b < N_proj_)
  /\ ~(nucleon_has_interacted_[a] \/ nucleon_has_interacted_[b])

\* the two particles are initial nucleons of the same nucleus and neither
\* has interacted yet
SpectatorExcluded(a, b) ==
  /\ a < N_tot_
  /\ b < N_tot_
  /\ \/ (a < N_proj_ /\ b < N_proj_)
     \/ (a >= N_proj_ /\ b >= N_proj_)
  /\ ~(nucleon_has_interacted_[a] \/ nucleon_has_interacted_[b])

\* a slip: only an empty cell counts as no cell
NoSearchCell_ZeroOnly(cell_vol) ==
  coll_crit_ = Stochastic /\ ~RLt(Zero, cell_vol)

\* no grid or search in cell: only the stochastic criterion looks at cell_vol
NoSearchCell(cell_vol) ==
  coll_crit_ = Stochastic /\ RLt(cell_vol, really_small)

\* a slip: > for >=, a collision at the very end of the step is kept
OutsideTimestep_EndIncluded(t, dt) ==
  RLt(t, Zero) \/ RGt(t, R(dt, 1))

\* the collision does not happen in this timestep
OutsideTimestep(t, dt) ==
  RLt(t, Zero) \/ RGe(t, R(dt, 1))

\* (maximum_cross_section / testparticles) * fm2_mb * M_1_PI
max_transverse_distance_sqr(testparticles) ==
  RMul(RMul(R(maximum_cross_section, testparticles), fm2_mb), M_1_PI)

\* a slip: > for >=, a pair exactly at the maximum distance goes on
TooFarApart_Beyond(distance_squared) ==
  /\ coll_crit_ # Stochastic
  /\ RGt(distance_squared, max_transverse_distance_sqr(testparticles_))

\* the pre-filter of the geometric and covariant criteria
TooFarApart(distance_squared) ==
  /\ coll_crit_ # Stochastic
  /\ RGe(distance_squared, max_transverse_distance_sqr(testparticles_))

\* xs = cross_section() * fm2_mb / testparticles, times both scaling factors
ScaledCrossSection(cs, sa, sb) ==
  RMul(RMul(RDiv(RMul(cs, fm2_mb), R(testparticles_, 1)), sa), sb)

\* prob = xs * v_rel * dt / cell_vol
CollisionProbability(xs, v_rel, dt, cell_vol) ==
  RDiv(RMul(RMul(xs, v_rel), R(dt, 1)), cell_vol)

\* a slip: >= for >, a probability of exactly 1 is fatal
ProbabilityTooLarge_AtOne(prob) == RGe(prob, One)

ProbabilityTooLarge(prob) == RGt(prob, One)

\* random_no > prob: no collision
DrawRejects(random_no, prob) == RGt(random_no, prob)

\* a slip: the comparison of the two identifiers is inverted
JustCollided_Inverted(pa, pb) == pa > 0 /\ pa # pb

\* the two particles just collided with each other
JustCollided(pa, pb) == pa > 0 /\ pa = pb

\* a slip: > for >=, a pair exactly at the cross section's edge collides
OutsideCrossSection_EdgeIncluded(distance_squared, xs) ==
  RGt(distance_squared, RMul(xs, M_1_PI))

\* distance_squared >= xs * M_1_PI
OutsideCrossSection(distance_squared, xs) ==
  RGe(distance_squared, RMul(xs, M_1_PI))

\* the stochastic branch, once the cross section is known
StochasticDecision(c, dt, cell_vol) ==
  LET xs == ScaledCrossSection(c.cs, c.sa, c.sb)
      prob == CollisionProbability(xs, c.v_rel, dt, cell_vol)
  IN  IF ProbabilityTooLarge(prob)
      THEN {[c EXCEPT !.kind = "fatal", !.time = NoVal,
                      !.stage = "probability"]}
      ELSE {[c EXCEPT !.u = random_no, !.draws = 1,
                      !.kind = IF DrawRejects(random_no, prob)
                               THEN "none" ELSE "action",
                      !.time = IF DrawRejects(random_no, prob)
                               THEN NoVal ELSE c.t,
                      !.stage = IF DrawRejects(random_no, prob)
                                THEN "draw" ELSE "accepted"]
            : random_no \in UniformDraws}

\* the geometric and covariant branch
GeometricDecision(c) ==
  LET xs == ScaledCrossSection(c.cs, c.sa, c.sb)
      stage == IF TooFarApart(c.d2) THEN "too_far"
               ELSE IF JustCollided(c.pa, c.pb) THEN "just_collided"
               ELSE IF OutsideCrossSection(c.d2, xs) THEN "distance"
               ELSE "accepted"
  IN  [c EXCEPT !.stage = stage,
                !.kind = IF stage = "accepted" THEN "action" ELSE "none",
                !.time = IF stage = "accepted" THEN c.t ELSE NoVal]

\* everything after the time window.  Under the stochastic criterion
\* distance_squared is 0.0 and the pre-filter is skipped.  Under the other
\* two the pair's cross section and last processes are recorded also when
\* the pre-filter returns before the code asks for them.
AfterTimeWindow(c, dt, cell_vol) ==
  IF coll_crit_ = Stochastic
  THEN UNION {StochasticDecision(
                  [c EXCEPT !.d2 = Zero, !.cs = cs, !.sa = sa, !.sb = sb,
                            !.v_rel = v], dt, cell_vol)
              : <<cs, sa, sb, v>> \in CrossSections \X ScalingFactors
                                      \X ScalingFactors \X RelativeVelocities}
  ELSE {GeometricDecision(
            [c EXCEPT !.d2 = q[1], !.cs = q[2], !.sa = q[3], !.sb = q[4],
                      !.pa = q[5], !.pb = pb])
        : <<q, pb>> \in {<<q, pb>> \in (D2Values \X CrossSections
                            \X ScalingFactors \X ScalingFactors \X ProcessIds)
                            \X (ProcessIds \cup {NoProc}) :
                          (q[5] > 0) <=> (pb # NoProc)}}

check_collision_two_part(data_a, data_b, dt, cell_vol) ==
  LET c0 == [Idle EXCEPT !.fn = "two_part", !.ids = <<data_a, data_b>>]
      \* cell_vol is looked at under the stochastic criterion only
      c1 == IF coll_crit_ = Stochastic
            THEN [c0 EXCEPT !.cell_vol = cell_vol] ELSE c0
  IN  IF SpectatorExcluded(data_a, data_b)
      THEN {[c1 EXCEPT !.stage = "spectator"]}
      ELSE IF NoSearchCell(cell_vol)
      THEN {[c1 EXCEPT !.stage = "no_cell"]}
      ELSE UNION {IF OutsideTimestep(t, dt)
                  THEN {[c1 EXCEPT !.dt = dt, !.t = t, !.stage = "time"]}
                  ELSE AfterTimeWindow([c1 EXCEPT !.dt = dt, !.t = t],
                                       dt, cell_vol)
                  : t \in CollisionTimes}

(***************************************************************************)
(* check_collision_multi_part                                              *)
(***************************************************************************)
\* a slip: >= for >
MultiProbabilityTooLarge_AtOne(p_nm) == RGe(p_nm, One)

MultiProbabilityTooLarge(p_nm) == RGt(p_nm, One)

\* time_until_collision = dt * random::uniform(0., 1.)
MultiCollisionTime(dt, random_no) == RMul(R(dt, 1), random_no)

\* a slip: < for !=, a multiplicity above 1 goes through
WrongTestParticles_BelowOne == testparticles_ < 1

\* the multiplicity the n-body probability is derived for
WrongTestParticles == testparticles_ # 1

\* New 3. to 6.: final state, probability, decision.  When no final state
\* is found the probability the group would have had is recorded although
\* the code returns before computing it.
MultiDecision(c) ==
  {[c EXCEPT !.process_type = "None", !.p_nm = p_nm, !.time = NoVal,
             !.stage = "no_final_state"] : p_nm \in MultiProbabilities}
  \cup
  UNION {IF MultiProbabilityTooLarge(p_nm)
         THEN {[c EXCEPT !.process_type = "ThreeToOne", !.p_nm = p_nm,
                         !.kind = "fatal", !.time = NoVal,
                         !.stage = "probability"]}
         ELSE {[c EXCEPT !.process_type = "ThreeToOne", !.p_nm = p_nm,
                         !.u = random_no, !.draws = 2,
                         !.kind = IF DrawRejects(random_no, p_nm)
                                  THEN "none" ELSE "action",
                         !.time = IF DrawRejects(random_no, p_nm)
                                  THEN NoVal ELSE c.time,
                         !.stage = IF DrawRejects(random_no, p_nm)
                                   THEN "draw" ELSE "accepted"]
               : random_no \in UniformDraws}
         : p_nm \in MultiProbabilities}

check_collision_multi_part(plist, dt, cell_vol) ==
  LET c0 == [Idle EXCEPT !.fn = "multi_part", !.ids = plist,
                         !.cell_vol = cell_vol]
  IN  IF RLt(cell_vol, really_small)
      THEN {[c0 EXCEPT !.stage = "no_cell"]}
      ELSE IF WrongTestParticles
      THEN {[c0 EXCEPT !.kind = "fatal", !.stage = "testparticles"]}
      ELSE UNION {MultiDecision(
                      [c0 EXCEPT !.dt = dt, !.u_time = random_no,
                                 !.draws = 1,
                                 !.time = MultiCollisionTime(dt, random_no)])
                  : random_no \in UniformDraws}

(***************************************************************************)
(* What a caller sees of a call of the pair evaluator without a cell       *)
(* volume (the argument's default is 0.0): the kind of the result, the     *)
(* descriptor's time and the draws consumed.  The configuration never      *)
(* changes, so the results possible for each pair and dt are tabulated     *)
(* once, at construction.                                                  *)
(***************************************************************************)
\* sequences of n distinct ids
Distinct(n) ==
  {s \in [1..n -> Ids] : \A i, j \in 1..n : i # j => s[i] # s[j]}

Outcome(c) == <<c.kind, c.time, c.draws>>

PairOutcomes ==
  [k \in Ids \X Ids \X DtValues |->
      {Outcome(c) : c \in check_collision_two_part(k[1], k[2], k[3], Zero)}]

(***************************************************************************)
(* The state after construction, and the calls of the two evaluators.      *)
(***************************************************************************)
\* the finder as the constructor leaves it, nothing called yet
Constructed ==
  /\ coll_crit_ \in CollisionCriterion
  /\ testparticles_ \in TestParticles
  /\ \E nn \in NucleonCounts :
        /\ N_tot_ = nn[1]
        /\ N_proj_ = nn[2]
        /\ nucleon_has_interacted_ \in [0..(nn[1] - 1) -> BOOLEAN]
  /\ call = Idle
  /\ cell = NoCell
  /\ cross = NoCross
  /\ tree = NoTree
  /\ final_state_xs = NoList
  /\ xs_dump = NoDump
  /\ scan = NoScan

\* where only the evaluators and the same-cell enumeration are looked at,
\* nothing is tabulated
Init == Constructed /\ outcomes = <<>>

InitTabulated == Constructed /\ outcomes = PairOutcomes

\* a slip: the evaluator itself marks the two nucleons of an accepted pair
\* as having interacted, which is the execution stage's business
CallTwoPart_MarksInteracted ==
  /\ call.fn = "idle"
  /\ ~cell.running
  /\ ~cross.running
  /\ \E s \in Distinct(2), dt \in DtValues, cell_vol \in PairCellVolumes :
        call' \in check_collision_two_part(s[1], s[2], dt, cell_vol)
  /\ nucleon_has_interacted_' =
        [i \in DOMAIN nucleon_has_interacted_ |->
            \/ nucleon_has_interacted_[i]
            \/ (call'.kind = "action" /\ i \in {call'.ids[1], call'.ids[2]})]
  /\ UNCHANGED <<coll_crit_, testparticles_, N_tot_, N_proj_, cell, others>>

CallTwoPart ==
  /\ call.fn = "idle"
  /\ ~cell.running
  /\ ~cross.running
  /\ \E s \in Distinct(2), dt \in DtValues, cell_vol \in PairCellVolumes :
        call' \in check_collision_two_part(s[1], s[2], dt, cell_vol)
  /\ UNCHANGED <<config, cell, others>>

CallMultiPart ==
  /\ call.fn = "idle"
  /\ ~cell.running
  /\ ~cross.running
  /\ \E plist \in Distinct(3), dt \in DtValues, cell_vol \in CellVolumes :
        call' \in check_collision_multi_part(plist, dt, cell_vol)
  /\ UNCHANGED <<config, cell, others>>

\* the caller takes the result
Return ==
  /\ call.fn # "idle"
  /\ call' = Idle
  /\ UNCHANGED <<config, cell, others>>

Next == CallTwoPart \/ CallMultiPart \/ Return

Spec == Init /\ [][Next]_vars


(***************************************************************************)
(* find_actions_in_cell.  The three nested loops over search_list are      *)
(* walked one evaluator call at a time: position q stands for (p1, p2) and *)
(* either the pair check (k = 0) or the triple check with the k-th         *)
(* particle as p3.  cell holds the arguments, the position, the evaluator  *)
(* calls made so far (their participants, in order), the participants of   *)
(* the actions collected, and how the enumeration ended: "returned", or    *)
(* "fatal" when an evaluator threw and the exception left the loops.       *)
(***************************************************************************)
SearchLists ==
  {s \in UNION {[1..n -> Ids] : n \in 0..MaxList} :
      \A i, j \in 1..Len(s) : i # j => s[i] # s[j]}

Positions(list) == Len(list) * Len(list) * (Len(list) + 1)

P1(list, q) == list[(q \div (Len(list) * (Len(list) + 1))) + 1]

P2(list, q) == list[((q % (Len(list) * (Len(list) + 1))) \div (Len(list) + 1)) + 1]

K3(list, q) == q % (Len(list) + 1)

\* a slip: != for <, every pair is visited in both orders
PairDue_BothOrders(p1, p2) == p1 # p2

\* if (p1.id() < p2.id())
PairDue(p1, p2) == p1 < p2

\* a slip: p3 is compared with p1 instead of p2
TripleDue_P3AgainstP1(p1, p2, p3) ==
  coll_crit_ = Stochastic /\ p1 < p2 /\ p1 < p3 /\ p2 # p3

\* stochastic criterion, and p1.id() < p2.id() && p2.id() < p3.id()
TripleDue(p1, p2, p3) ==
  coll_crit_ = Stochastic /\ p1 < p2 /\ p2 < p3

\* an evaluator is invoked at position q
Due(list, q) ==
  IF K3(list, q) = 0
  THEN PairDue(P1(list, q), P2(list, q))
  ELSE TripleDue(P1(list, q), P2(list, q), list[K3(list, q)])

\* the first position from q on at which an evaluator is invoked
NextDue(list, q) ==
  LET due == {x \in q..(Positions(list) - 1) : Due(list, x)}
  IN  IF due = {} THEN Positions(list)
      ELSE CHOOSE x \in due : \A y \in due : x <= y

\* what the enumeration keeps of an evaluator call that ended with kind
AfterCall(parts, kind) ==
  [cell EXCEPT
     !.calls = Append(@, parts),
     !.actions = IF kind = "action" THEN Append(@, parts) ELSE @,
     !.status = IF kind = "fatal" THEN "fatal" ELSE @,
     !.pos = NextDue(cell.search_list, cell.pos + 1)]

CellStart ==
  /\ ~cell.running
  /\ ~cross.running
  /\ call.fn = "idle"
  /\ \E list \in SearchLists, dt \in DtValues, cell_vol \in PairCellVolumes :
        cell' = [running |-> TRUE, search_list |-> list, dt |-> dt,
                 cell_vol |-> cell_vol, pos |-> NextDue(list, 0),
                 calls |-> <<>>, actions |-> <<>>, status |-> "running"]
  /\ UNCHANGED <<config, call, others>>

CellPairCheck ==
  /\ cell.running
  /\ cell.status = "running"
  /\ cell.pos < Positions(cell.search_list)
  /\ K3(cell.search_list, cell.pos) = 0
  /\ LET p1 == P1(cell.search_list, cell.pos)
         p2 == P2(cell.search_list, cell.pos)
     IN  \E kind \in {c.kind : c \in check_collision_two_part(
                                        p1, p2, cell.dt, cell.cell_vol)} :
            cell' = AfterCall(<<p1, p2>>, kind)
  /\ UNCHANGED <<config, call, others>>

CellTripleCheck ==
  /\ cell.running
  /\ cell.status = "running"
  /\ cell.pos < Positions(cell.search_list)
  /\ K3(cell.search_list, cell.pos) > 0
  /\ LET p1 == P1(cell.search_list, cell.pos)
         p2 == P2(cell.search_list, cell.pos)
         p3 == cell.search_list[K3(cell.search_list, cell.pos)]
     IN  \E kind \in {c.kind : c \in check_collision_multi_part(
                                <<p1, p2, p3>>, cell.dt, cell.cell_vol)} :
            cell' = AfterCall(<<p1, p2, p3>>, kind)
  /\ UNCHANGED <<config, call, others>>

\* return actions
CellReturn ==
  /\ cell.running
  /\ cell.status = "running"
  /\ cell.pos = Positions(cell.search_list)
  /\ cell' = [cell EXCEPT !.status = "returned"]
  /\ UNCHANGED <<config, call, others>>

NextCell == CellStart \/ CellPairCheck \/ CellTripleCheck \/ CellReturn

SpecCell == Init /\ [][NextCell]_vars

(***************************************************************************)
(* Properties of the evaluators, stated on the record of a call.           *)
(***************************************************************************)
IsTwoPart == call.fn = "two_part"

IsMultiPart == call.fn = "multi_part"

GeometricOrCovariant == coll_crit_ \in {Geometric, Covariant}

\* both particles are initial nucleons of one nucleus, neither has interacted
SameSideSpectators ==
  LET a == call.ids[1]
      b == call.ids[2]
  IN  /\ a < N_tot_
      /\ b < N_tot_
      /\ (a < N_proj_) = (b < N_proj_)
      /\ ~nucleon_has_interacted_[a]
      /\ ~nucleon_has_interacted_[b]

\* the call obtained a collision time and it lies in [0, dt)
InTimeWindow ==
  /\ call.t # NoVal
  /\ call.t.n >= 0
  /\ call.t.n < call.dt * call.t.d

\* the pair's scaled total cross section, in fm^2
PairXs ==
  R(call.cs.n * call.sa.n * call.sb.n,
    call.cs.d * call.sa.d * call.sb.d * 10 * testparticles_)

\* PairXs * v_rel * dt / cell_vol > 1
PairProbabilityAboveOne ==
  PairXs.n * call.v_rel.n * call.dt * call.cell_vol.d
    > PairXs.d * call.v_rel.d * call.cell_vol.n

\* transverse distance squared < PairXs / pi
InsideCrossSection ==
  call.d2.n * PiNum * PairXs.d < PairXs.n * PiDen * call.d2.d

\* the two particles share a nonzero last-process identifier
SameLastProcess == call.pa # 0 /\ call.pa = call.pb

VolumeBelowThreshold ==
  call.cell_vol # NoVal /\ RLt(call.cell_vol, really_small)

\* C1: a pair of same-side initial nucleons that have both not interacted
\* gets no result from check_collision_two_part, under every criterion.
C1_SpectatorExclusion ==
  (IsTwoPart /\ SameSideSpectators) => call.kind = "none"

C1_Witness ==
  /\ IsTwoPart
  /\ SameSideSpectators
  /\ call.ids = <<2, 1>>
  /\ coll_crit_ = Stochastic

\* C2: every descriptor returned by either evaluator has a time until
\* collision t with 0 <= t < dt.
C2_TimeWithinStep ==
  call.kind = "action" =>
     /\ call.time # NoVal
     /\ call.time.n >= 0
     /\ call.time.n < call.dt * call.time.d

C2_Witness ==
  /\ IsMultiPart
  /\ call.kind = "action"
  /\ call.u_time = R(UDen - 1, UDen)
  /\ call.time.n > 0

\* C3: check_collision_two_part raises exactly when the criterion is
\* Stochastic, the pair got past spectator exclusion, volume gating and the
\* time window, and xs * v_rel * dt / cell_vol > 1; a raising call returns
\* no descriptor.
C3_FatalIffProbabilityAboveOne ==
  IsTwoPart =>
     ((call.kind = "fatal") <=>
        /\ coll_crit_ = Stochastic
        /\ ~SameSideSpectators
        /\ ~VolumeBelowThreshold
        /\ InTimeWindow
        /\ PairProbabilityAboveOne)

C3_Witness ==
  /\ IsTwoPart
  /\ call.kind = "fatal"
  /\ call.time = NoVal

\* C4: with one test particle and a cell volume at or above the threshold,
\* check_collision_multi_part raises exactly when a final state exists and
\* p_nm > 1; without a final state it returns no result.
C4_MultiFatalIffProbabilityAboveOne ==
  (IsMultiPart /\ testparticles_ = 1 /\ ~VolumeBelowThreshold) =>
     /\ (call.kind = "fatal") <=>
           (call.process_type # "None" /\ call.p_nm.n > call.p_nm.d)
     /\ call.process_type = "None" => call.kind = "none"

C4_Witness ==
  /\ IsMultiPart
  /\ testparticles_ = 1
  /\ call.process_type = "None"
  /\ call.p_nm.n > call.p_nm.d
  /\ call.kind = "none"

\* C5 as claimed: with a test-particle multiplicity other than 1,
\* check_collision_multi_part always raises.
C5_Claimed ==
  (IsMultiPart /\ testparticles_ # 1) => call.kind = "fatal"

\* C5 as amended: with a test-particle multiplicity other than 1 and a cell
\* volume at or above the noise threshold, check_collision_multi_part raises;
\* below the threshold it returns no result.
C5_FatalUnlessNoCell ==
  (IsMultiPart /\ testparticles_ # 1) =>
     call.kind = (IF VolumeBelowThreshold THEN "none" ELSE "fatal")

C5_Witness ==
  /\ IsMultiPart
  /\ testparticles_ = 2
  /\ ~VolumeBelowThreshold
  /\ call.kind = "fatal"

\* C6: under the stochastic criterion a cell volume below the noise
\* threshold makes both evaluators return no result, without a fault and
\* without a random draw.
C6_NoCellNoResult ==
  ((IsTwoPart \/ IsMultiPart) /\ coll_crit_ = Stochastic
     /\ VolumeBelowThreshold) =>
        (call.kind = "none" /\ call.draws = 0)

C6_Witness ==
  /\ IsTwoPart
  /\ coll_crit_ = Stochastic
  /\ call.cell_vol = R(1, 2000000)
  /\ ~SameSideSpectators
  /\ call.kind = "none"

\* C7 as claimed: under the geometric and covariant criteria a pair past
\* spectator exclusion, the time window and the same-last-process check is
\* accepted iff its transverse distance squared is < xs / pi.
C7_Claimed ==
  (IsTwoPart /\ GeometricOrCovariant /\ ~SameSideSpectators
     /\ InTimeWindow /\ ~SameLastProcess) =>
        ((call.kind = "action") <=> InsideCrossSection)

\* the pair got past the distance pre-filter
InsideMaximumDistance ==
  RLt(call.d2, max_transverse_distance_sqr(testparticles_))

\* C7 as amended: under the geometric and covariant criteria a pair past
\* spectator exclusion, the time window, the distance pre-filter and the
\* same-last-process check is accepted iff its transverse distance squared
\* is < xs / pi; equality rejects.
C7_AcceptedIffInsideCrossSection ==
  (IsTwoPart /\ GeometricOrCovariant /\ ~SameSideSpectators
     /\ InTimeWindow /\ InsideMaximumDistance /\ ~SameLastProcess) =>
        ((call.kind = "action") <=> InsideCrossSection)

C7_Witness ==
  /\ IsTwoPart
  /\ coll_crit_ = Covariant
  /\ InTimeWindow
  /\ InsideMaximumDistance
  /\ ~SameLastProcess
  /\ call.d2.n > 0
  /\ call.d2.n * PiNum * PairXs.d = PairXs.n * PiDen * call.d2.d
  /\ call.kind = "none"

CellEnded == cell.running /\ cell.status \in {"returned", "fatal"}

CellReturned == cell.running /\ cell.status = "returned"

CellIds == {cell.search_list[i] : i \in 1..Len(cell.search_list)}

\* how often the enumeration invoked an evaluator with exactly these
\* participants in this order
TimesCalled(parts) ==
  Cardinality({i \in 1..Len(cell.calls) : cell.calls[i] = parts})

PairCalls == {i \in 1..Len(cell.calls) : Len(cell.calls[i]) = 2}

TripleCalls == {i \in 1..Len(cell.calls) : Len(cell.calls[i]) = 3}

\* every unordered pair once, lower id first, and no other pair call
EveryPairOnce ==
  /\ \A a, b \in CellIds : a < b => TimesCalled(<<a, b>>) = 1
  /\ \A i \in PairCalls : cell.calls[i][1] < cell.calls[i][2]
  /\ 2 * Cardinality(PairCalls)
        = Len(cell.search_list) * (Len(cell.search_list) - 1)

\* no pair twice, in either order, and always lower id first
NoPairTwice ==
  /\ \A i \in PairCalls : cell.calls[i][1] < cell.calls[i][2]
  /\ \A i, j \in PairCalls : cell.calls[i] = cell.calls[j] => i = j

\* every unordered triple once, by ascending id, and no other triple call
EveryTripleOnce ==
  /\ \A a, b, c \in CellIds :
        (a < b /\ b < c) => TimesCalled(<<a, b, c>>) = 1
  /\ \A i \in TripleCalls :
        /\ cell.calls[i][1] < cell.calls[i][2]
        /\ cell.calls[i][2] < cell.calls[i][3]
  /\ 6 * Cardinality(TripleCalls)
        = Len(cell.search_list) * (Len(cell.search_list) - 1)
            * (Len(cell.search_list) - 2)

NoTripleTwice ==
  /\ \A i \in TripleCalls :
        /\ cell.calls[i][1] < cell.calls[i][2]
        /\ cell.calls[i][2] < cell.calls[i][3]
  /\ \A i, j \in TripleCalls : cell.calls[i] = cell.calls[j] => i = j

\* C9 as claimed: whenever find_actions_in_cell ends it has invoked
\* check_collision_two_part exactly once for each unordered pair, lower id
\* first, under every criterion and for every order of the list.
C9_Claimed == CellEnded => EveryPairOnce

\* C9 as amended: when find_actions_in_cell returns (no evaluator raised the
\* fatal fault) it has invoked check_collision_two_part exactly once for
\* each unordered pair, lower id first and never for a particle with
\* itself, under every criterion and for every order of the list; a fatal
\* fault ends the enumeration at that call, and up to it no pair was
\* evaluated twice or with the higher id first.
C9_EveryPairOnceOnReturn ==
  /\ CellReturned => EveryPairOnce
  /\ cell.running => NoPairTwice

C9_Witness ==
  /\ CellReturned
  /\ coll_crit_ = Stochastic
  /\ cell.search_list = <<2, 0, 1>>
  /\ Cardinality(PairCalls) = 3

\* C10 as claimed: whenever find_actions_in_cell ends it has passed each
\* unordered triple to check_collision_multi_part exactly once, by
\* ascending id, under the stochastic criterion, and none under the
\* geometric and covariant criteria.
C10_Claimed ==
  CellEnded =>
     IF coll_crit_ = Stochastic THEN EveryTripleOnce ELSE TripleCalls = {}

\* C10 as amended: when find_actions_in_cell returns (no evaluator raised
\* the fatal fault) under the stochastic criterion it has passed each
\* unordered triple to check_collision_multi_part exactly once, by
\* ascending id; a fatal fault ends the enumeration at that call, and up to
\* it no triple was passed twice or out of order; under the geometric and
\* covariant criteria check_collision_multi_part is never invoked.
C10_EveryTripleOnceOnReturn ==
  /\ (CellReturned /\ coll_crit_ = Stochastic) => EveryTripleOnce
  /\ (cell.running /\ coll_crit_ = Stochastic) => NoTripleTwice
  /\ (cell.running /\ coll_crit_ # Stochastic) => TripleCalls = {}

C10_Witness ==
  /\ CellReturned
  /\ coll_crit_ = Stochastic
  /\ cell.search_list = <<1, 2, 0>>
  /\ TimesCalled(<<0, 1, 2>>) = 1


(***************************************************************************)
(* find_actions_with_neighbors and find_actions_with_surrounding_particles.*)
(* Both walk the pairs of a search list and a second list, one evaluator   *)
(* call at a time.  cross holds the arguments, the position q in the two   *)
(* nested loops, the pairs handed to the evaluator so far, the pairs of    *)
(* the actions collected, the random draws consumed and how the            *)
(* enumeration ended: "returned" or "fatal" (an evaluator threw).  The     *)
(* neighbor enumeration asserts that no pair it visits has equal ids; it   *)
(* is called with lists for which the assertion holds.                     *)
(***************************************************************************)
CrossLists ==
  {s \in UNION {[1..n -> Ids] : n \in 0..MaxPool} :
      \A i, j \in 1..Len(s) : i # j => s[i] # s[j]}

CrossPositions(search_list, other_list) == Len(search_list) * Len(other_list)

\* neighbors: p1 is the outer loop; surrounding: p1 is the inner loop
CrossP1(fn, search_list, other_list, q) ==
  IF fn = "neighbors"
  THEN search_list[(q \div Len(other_list)) + 1]
  ELSE search_list[(q % Len(search_list)) + 1]

CrossP2(fn, search_list, other_list, q) ==
  IF fn = "neighbors"
  THEN other_list[(q % Len(other_list)) + 1]
  ELSE other_list[(q \div Len(search_list)) + 1]

\* a slip: the criterion tested is not the stochastic one
OnlySearchInCells_WrongCriterion == coll_crit_ = Covariant

\* if (coll_crit_ == CollisionCriterion::Stochastic) return actions;
OnlySearchInCells == coll_crit_ = Stochastic

\* a slip: the search for p2's id in the search list never finds it
InSearchList_NeverFound(search_list, p2) == FALSE

\* std::find_if over the search list for p2's id
InSearchList(search_list, p2) ==
  \E i \in 1..Len(search_list) : search_list[i] = p2

CrossIds(list) == {list[i] : i \in 1..Len(list)}

\* assert(p1.id() != p2.id()) holds for every pair the loops reach
NeighborsAsserted(search_list, neighbors_list) ==
  \/ OnlySearchInCells
  \/ CrossIds(search_list) \cap CrossIds(neighbors_list) = {}

\* the evaluator is invoked at position q
CrossDue(fn, search_list, other_list, q) ==
  \/ fn = "neighbors"
  \/ ~InSearchList(search_list, CrossP2(fn, search_list, other_list, q))

NextCrossDue(fn, search_list, other_list, q) ==
  LET last == CrossPositions(search_list, other_list)
      due == {x \in q..(last - 1) : CrossDue(fn, search_list, other_list, x)}
  IN  IF due = {} THEN last
      ELSE CHOOSE x \in due : \A y \in due : x <= y

\* the enumeration up to its first evaluator call, or its return under the
\* stochastic criterion
CrossBegin(fn, search_list, other_list, dt) ==
  [running |-> TRUE, fn |-> fn, search_list |-> search_list,
   other_list |-> other_list, dt |-> dt,
   pos |-> IF OnlySearchInCells
           THEN CrossPositions(search_list, other_list)
           ELSE NextCrossDue(fn, search_list, other_list, 0),
   calls |-> <<>>, actions |-> <<>>, draws |-> 0,
   status |-> IF OnlySearchInCells THEN "returned" ELSE "running"]

\* what the enumeration keeps of an evaluator call
AfterCrossCall(parts, kind, draws) ==
  [cross EXCEPT
     !.calls = Append(@, parts),
     !.actions = IF kind = "action" THEN Append(@, parts) ELSE @,
     !.draws = @ + draws,
     !.status = IF kind = "fatal" THEN "fatal" ELSE @,
     !.pos = NextCrossDue(cross.fn, cross.search_list, cross.other_list,
                          cross.pos + 1)]

NeighborsStart ==
  /\ ~cross.running
  /\ ~cell.running
  /\ call.fn = "idle"
  /\ \E search_list \in CrossLists, neighbors_list \in CrossLists,
        dt \in DtValues :
        /\ NeighborsAsserted(search_list, neighbors_list)
        /\ cross' = CrossBegin("neighbors", search_list, neighbors_list, dt)
  /\ UNCHANGED <<config, call, cell,
               tree, final_state_xs, xs_dump, scan, outcomes>>

SurroundingStart ==
  /\ ~cross.running
  /\ ~cell.running
  /\ call.fn = "idle"
  /\ \E search_list \in CrossLists, surrounding_list \in CrossLists,
        dt \in DtValues :
        cross' = CrossBegin("surrounding", search_list, surrounding_list, dt)
  /\ UNCHANGED <<config, call, cell,
               tree, final_state_xs, xs_dump, scan, outcomes>>

\* check_collision_two_part(p1, p2, dt, beam_momentum): cell_vol is left at
\* its default 0.0
CrossPairCheck ==
  /\ cross.running
  /\ cross.status = "running"
  /\ cross.pos < CrossPositions(cross.search_list, cross.other_list)
  /\ LET p1 == CrossP1(cross.fn, cross.search_list, cross.other_list,
                       cross.pos)
         p2 == CrossP2(cross.fn, cross.search_list, cross.other_list,
                       cross.pos)
     IN  \E r \in {<<o[1], o[3]>> : o \in outcomes[<<p1, p2, cross.dt>>]} :
            cross' = AfterCrossCall(<<p1, p2>>, r[1], r[2])
  /\ UNCHANGED <<config, call, cell,
               tree, final_state_xs, xs_dump, scan, outcomes>>

\* return actions
CrossReturn ==
  /\ cross.running
  /\ cross.status = "running"
  /\ cross.pos = CrossPositions(cross.search_list, cross.other_list)
  /\ cross' = [cross EXCEPT !.status = "returned"]
  /\ UNCHANGED <<config, call, cell,
               tree, final_state_xs, xs_dump, scan, outcomes>>

NextCross ==
  \/ NeighborsStart
  \/ SurroundingStart
  \/ CrossPairCheck
  \/ CrossReturn

SpecCross == InitTabulated /\ [][NextCross]_vars

(***************************************************************************)
(* Properties of the neighbor and surrounding enumerations.                *)
(***************************************************************************)
CrossCalls == {cross.calls[i] : i \in 1..Len(cross.calls)}

CrossActions == {cross.actions[i] : i \in 1..Len(cross.actions)}

\* the pairs of a search-list particle and a pool particle whose id is not
\* in the search list
OutsidePairs ==
  {<<p1, p2>> \in CrossIds(cross.search_list) \X CrossIds(cross.other_list) :
      p2 \notin CrossIds(cross.search_list)}

\* C11: under the stochastic criterion the neighbor and the surrounding
\* enumeration return an empty collection, whatever the two lists and dt:
\* no pair was handed to the evaluator, no draw consumed, nothing raised.
C11_StochasticCrossEmpty ==
  (cross.running /\ coll_crit_ = Stochastic)
    => /\ cross.status = "returned"
       /\ cross.actions = <<>>
       /\ cross.calls = <<>>
       /\ cross.draws = 0

\* a surrounding enumeration over two non-empty lists with a pool particle
\* outside the search list has returned under the stochastic criterion
C11_Witness ==
  /\ cross.running
  /\ coll_crit_ = Stochastic
  /\ cross.fn = "surrounding"
  /\ cross.status = "returned"
  /\ OutsidePairs # {}

\* C12: under the geometric and covariant criteria the surrounding
\* enumeration never hands the evaluator a pair outside OutsidePairs, has
\* handed it every pair of OutsidePairs when it returns, and collects no
\* action whose two particles are both in the search list or are the same.
C12_SurroundingPairs ==
  (cross.running /\ cross.fn = "surrounding" /\ GeometricOrCovariant)
    => /\ CrossCalls \subseteq OutsidePairs
       /\ cross.status = "returned" => CrossCalls = OutsidePairs
       /\ \A a \in CrossActions :
             /\ ~(a[1] \in CrossIds(cross.search_list)
                  /\ a[2] \in CrossIds(cross.search_list))
             /\ a[1] # a[2]

\* a surrounding enumeration has returned an action, having skipped a pool
\* particle that is also in the search list
C12_Witness ==
  /\ cross.running
  /\ cross.fn = "surrounding"
  /\ GeometricOrCovariant
  /\ cross.status = "returned"
  /\ cross.actions # <<>>
  /\ CrossIds(cross.other_list) \cap CrossIds(cross.search_list) # {}


(***************************************************************************)
(* The finder's five functions together, called one after the other: a     *)
(* caller takes the result of an enumeration that returned, or catches the *)
(* exception of one that threw, and calls again.                           *)
(***************************************************************************)
CellCollect ==
  /\ cell.running
  /\ cell.status \in {"returned", "fatal"}
  /\ cell' = NoCell
  /\ UNCHANGED <<config, call, others>>

CrossCollect ==
  /\ cross.running
  /\ cross.status \in {"returned", "fatal"}
  /\ cross' = NoCross
  /\ UNCHANGED <<config, call, cell,
               tree, final_state_xs, xs_dump, scan, outcomes>>

NextFinder ==
  \/ CallTwoPart
  \/ CallMultiPart
  \/ Return
  \/ CellStart
  \/ CellPairCheck
  \/ CellTripleCheck
  \/ CellReturn
  \/ CellCollect
  \/ NeighborsStart
  \/ SurroundingStart
  \/ CrossPairCheck
  \/ CrossReturn
  \/ CrossCollect

SpecFinder == InitTabulated /\ [][NextFinder]_vars

\* the particles handed to a running enumeration are the ones it was given
ParticlesKept ==
  /\ (cell.running /\ cell'.running)
       => cell'.search_list = cell.search_list
  /\ (cross.running /\ cross'.running)
       => /\ cross'.search_list = cross.search_list
          /\ cross'.other_list = cross.other_list

\* C13: no step of the two evaluators and the three enumerations, whether
\* the call accepts, rejects or raises, changes the interaction flags,
\* N_tot, N_proj (or any other part of the configuration) or the particle
\* lists it was handed.
C13_ConfigurationUnchanged == [][UNCHANGED config /\ ParticlesKept]_vars

\* with initial nucleons of which one has interacted, the same-cell
\* enumeration has rejected a pair, accepted another and ended with an
\* exception
C13_Witness ==
  /\ N_tot_ > 0
  /\ \E i \in DOMAIN nucleon_has_interacted_ : nucleon_has_interacted_[i]
  /\ cell.running
  /\ cell.status = "fatal"
  /\ cell.actions # <<>>
  /\ Len(cell.calls) > Len(cell.actions) + 1


(***************************************************************************)
(* The decay tree of dump_cross_sections (namespace decaytree).            *)
(*                                                                         *)
(* Particle types are "a", "b" (stable) and "X", "Y" (unstable); a         *)
(* ParticleTypePtr is the type itself.  A registry reg gives each type     *)
(* its pole mass and its list of decay branches (weight, particle_types).  *)
(* Type names are strings of characters, here sequences of character       *)
(* codes, compared and concatenated as std::string is.  Masses and         *)
(* energies are integers, weights exact rationals.                         *)
(***************************************************************************)
ParticleTypes == {"a", "b", "X", "Y"}

\* ParticleType::name()
name(ptype) ==
  CASE ptype = "a" -> <<1>>
    [] ptype = "b" -> <<2>>
    [] ptype = "X" -> <<3>>
    [] ptype = "Y" -> <<4>>

\* ParticleType::is_stable()
is_stable(ptype) == ptype \in {"a", "b"}

\* the decay branches a registry may give the unstable type ptype: none,
\* one into two stable particles, two of half the weight each, or one into
\* a stable particle and the other unstable type
DecayModeLists(ptype) ==
  LET other == IF ptype = "X" THEN "Y" ELSE "X"
  IN  {<<>>,
       <<[weight |-> One, particle_types |-> <<"a", "a">>]>>,
       <<[weight |-> R(1, 2), particle_types |-> <<"a", "a">>],
         [weight |-> R(1, 2), particle_types |-> <<"a", "b">>]>>,
       <<[weight |-> One, particle_types |-> <<"a", other>>]>>}

Registries ==
  {[mass |-> [ptype \in ParticleTypes |->
                 IF ptype = "X" THEN mx ELSE IF ptype = "Y" THEN my ELSE 1],
    decay_mode_list |-> [ptype \in ParticleTypes |->
                 IF ptype = "X" THEN dx ELSE IF ptype = "Y" THEN dy ELSE <<>>]]
   : mx \in 1..MaxMass, my \in 1..MaxMass,
     dx \in DecayModeLists("X"), dy \in DecayModeLists("Y")}

\* the pairs (a, b) of a query
RootPairs == {<<"a", "a">>, <<"a", "b">>, <<"b", "a">>}

\* act->collision_channels(): nothing, a channel of weight 0, the elastic
\* channel, or channels producing one or two resonances
ProcessLists(a, b) ==
  LET zero == [weight |-> Zero, particle_types |-> <<a, b>>]
      el == [weight |-> R(2, 1), particle_types |-> <<a, b>>]
      resX == [weight |-> One, particle_types |-> <<"X">>]
      resXY == [weight |-> One, particle_types |-> <<"X", "Y">>]
      resXX == [weight |-> One, particle_types |-> <<"X", "X">>]
  IN  {<<>>, <<zero>>, <<el>>, <<resX>>, <<resXY>>, <<resXX>>,
       <<el, resXY>>, <<resX, resXY>>}

RECURSIVE GreatestCommonDivisor(_, _)
GreatestCommonDivisor(i, j) ==
  IF j = 0 THEN i ELSE GreatestCommonDivisor(j, i % j)

\* x + y of two weights, none negative, in lowest terms
RAdd(x, y) ==
  LET common == GreatestCommonDivisor(x.d, y.d)
      n == x.n * (y.d \div common) + y.n * (x.d \div common)
      d == (x.d \div common) * y.d
      g == GreatestCommonDivisor(n, d)
  IN  R(n \div g, d \div g)

REq(x, y) == x.n * y.d = y.n * x.d

\* a.name_ < b.name_ on std::string
RECURSIVE NameLess(_, _)
NameLess(s, u) ==
  IF u = <<>> THEN FALSE
  ELSE IF s = <<>> THEN TRUE
  ELSE IF Head(s) # Head(u) THEN Head(s) < Head(u)
  ELSE NameLess(Tail(s), Tail(u))

\* state.erase(std::find(state.begin(), state.end(), p)); every caller
\* passes a particle of the state
RECURSIVE EraseFirst(_, _)
EraseFirst(state, p) ==
  IF state = <<>> THEN <<>>
  ELSE IF Head(state) = p THEN Tail(state)
  ELSE <<Head(state)>> \o EraseFirst(Tail(state), p)

RECURSIVE EraseAll(_, _)
EraseAll(state, initial_particles) ==
  IF initial_particles = <<>> THEN state
  ELSE EraseAll(EraseFirst(state, Head(initial_particles)),
                Tail(initial_particles))

\* p put into a sequence sorted by name; particles of equal name are the
\* same type
RECURSIVE InsertByName(_, _)
InsertByName(sorted, p) ==
  IF sorted = <<>> THEN <<p>>
  ELSE IF NameLess(name(p), name(Head(sorted))) THEN <<p>> \o sorted
  ELSE <<Head(sorted)>> \o InsertByName(Tail(sorted), p)

\* std::sort(state.begin(), state.end(), by name)
RECURSIVE SortByName(_)
SortByName(state) ==
  IF state = <<>> THEN <<>>
  ELSE InsertByName(SortByName(Tail(state)), Head(state))

\* a slip: the new state is left in the order erase and push_back produce
NewNode_Unsorted(state_, action_name, weight, initial_particles, final_particles) ==
  [name_ |-> action_name, weight_ |-> weight,
   initial_particles_ |-> initial_particles,
   final_particles_ |-> final_particles,
   state_ |-> EraseAll(state_, initial_particles) \o final_particles,
   children_ |-> <<>>]

\* the node add_action pushes to the children of a node with state state_
NewNode(state_, action_name, weight, initial_particles, final_particles) ==
  [name_ |-> action_name, weight_ |-> weight,
   initial_particles_ |-> initial_particles,
   final_particles_ |-> final_particles,
   state_ |-> SortByName(EraseAll(state_, initial_particles)
                           \o final_particles),
   children_ |-> <<>>]

RECURSIVE SumOfMasses(_, _)
SumOfMasses(reg, particles) ==
  IF particles = <<>> THEN 0
  ELSE reg.mass[Head(particles)] + SumOfMasses(reg, Tail(particles))

\* a slip: the unstable types are counted, not the unstable particles
NumberUnstable_Types(state) ==
  Cardinality({state[i] : i \in {j \in 1..Len(state) : ~is_stable(state[j])}})

NumberUnstable(state) ==
  Cardinality({i \in 1..Len(state) : ~is_stable(state[i])})

\* a slip: a decay one unit of mass above the energy left is still taken
KinematicallyImpossible_Lenient(final_state_mass, sqrts_decay) ==
  final_state_mass > sqrts_decay + 1

\* if (final_state_mass > sqrts_decay) continue;
KinematicallyImpossible(final_state_mass, sqrts_decay) ==
  final_state_mass > sqrts_decay

\* a slip: the node keeps its weight when a resonance cannot decay
WeightWhenStuck_Kept(weight) == weight

\* node.weight_ = 0;
WeightWhenStuck(weight) == Zero

\* what the recursive call is handed as sqrts
EnergyHandedDown(sqrts, sqrts_decay) == sqrts_decay

\* add_decays(node, sqrts).  DecayLoop is the second loop over
\* node.state_, from its i-th particle on.
RECURSIVE add_decays(_, _, _), DecayLoop(_, _, _, _)
DecayLoop(reg, node, sqrts, i) ==
  IF i > Len(node.state_) THEN node
  ELSE
    LET ptype == node.state_[i]
        n_unstable == NumberUnstable(node.state_)
        norm == IF n_unstable # 0 THEN R(1, n_unstable) ELSE One
        sqrts_minus_masses == sqrts - SumOfMasses(reg, node.state_)
        sqrts_decay == sqrts_minus_masses + reg.mass[ptype]
        possible ==
          SelectSeq(reg.decay_mode_list[ptype],
                    LAMBDA decay :
                      ~KinematicallyImpossible(
                          SumOfMasses(reg, decay.particle_types),
                          sqrts_decay))
        added ==
          [k \in 1..Len(possible) |->
             add_decays(reg,
                        NewNode(node.state_,
                                <<ptype, possible[k].particle_types>>,
                                RMul(norm, possible[k].weight),
                                <<ptype>>, possible[k].particle_types),
                        EnergyHandedDown(sqrts, sqrts_decay))]
        expanded == [node EXCEPT !.children_ = @ \o added]
    IN  IF is_stable(ptype) THEN DecayLoop(reg, node, sqrts, i + 1)
        ELSE IF possible = <<>>
        THEN [expanded EXCEPT !.weight_ = WeightWhenStuck(@)]
        ELSE DecayLoop(reg, expanded, sqrts, i + 1)

add_decays(reg, node, sqrts) == DecayLoop(reg, node, sqrts, 1)

\* the loop of dump_cross_sections over the channels, in final-state mode:
\* a channel of weight xs > 0 becomes a child of the root, then expanded
RECURSIVE ProcessNodes(_, _, _, _)
ProcessNodes(reg, root_state, processes, sqrts) ==
  IF processes = <<>> THEN <<>>
  ELSE
    LET process == Head(processes)
        rest == ProcessNodes(reg, root_state, Tail(processes), sqrts)
    IN  IF ~RGt(process.weight, Zero) THEN rest
        ELSE <<add_decays(reg,
                          NewNode(root_state, process.particle_types,
                                  process.weight, root_state,
                                  process.particle_types),
                          sqrts)>> \o rest

RECURSIVE TotalWeight(_)
TotalWeight(processes) ==
  IF processes = <<>> THEN Zero
  ELSE RAdd(Head(processes).weight, TotalWeight(Tail(processes)))

\* decaytree::Node tree(a.name() + b.name(), act->cross_section(),
\*                      {&a, &b}, {&a, &b}, {&a, &b}, {}) and its expansion
DecayTree(reg, a, b, processes, sqrts) ==
  [name_ |-> name(a) \o name(b), weight_ |-> TotalWeight(processes),
   initial_particles_ |-> <<a, b>>, final_particles_ |-> <<a, b>>,
   state_ |-> <<a, b>>,
   children_ |-> ProcessNodes(reg, <<a, b>>, processes, sqrts)]

RECURSIVE StateName(_)
StateName(state) ==
  IF state = <<>> THEN <<>> ELSE name(Head(state)) \o StateName(Tail(state))

\* a slip: the root's weight, the total cross section, is multiplied in
SkipsRootWeight_Never(depth) == TRUE

\* if (depth > 0)
SkipsRootWeight(depth) == depth > 0

\* final_state_cross_sections_helper(depth, result, name, weight), with
\* show_intermediate_states = false: the entries it appends to result
RECURSIVE final_state_cross_sections_helper(_, _, _, _), HelperOverChildren(_, _, _, _)
final_state_cross_sections_helper(reg, node, depth, weight) ==
  LET w == IF SkipsRootWeight(depth) THEN RMul(weight, node.weight_)
           ELSE weight
  IN  IF node.children_ = <<>>
      THEN <<[name_ |-> StateName(node.state_), cross_section_ |-> w,
              mass_ |-> SumOfMasses(reg, node.state_)]>>
      ELSE HelperOverChildren(reg, node.children_, depth + 1, w)

HelperOverChildren(reg, children, depth, weight) ==
  IF children = <<>> THEN <<>>
  ELSE final_state_cross_sections_helper(reg, Head(children), depth, weight)
         \o HelperOverChildren(reg, Tail(children), depth, weight)

\* final_state_cross_sections_helper(0, result, "", 1.)
final_state_cross_sections(reg, node) ==
  final_state_cross_sections_helper(reg, node, 0, One)

\* one momentum point of dump_cross_sections in final-state mode, up to the
\* expansion of the tree
BuildTree ==
  /\ ~tree.built
  /\ ~final_state_xs.given
  /\ \E reg \in Registries, ab \in RootPairs, sqrts \in 1..MaxSqrts :
       \E processes \in ProcessLists(ab[1], ab[2]) :
          tree' = [built |-> TRUE, reg |-> reg, a |-> ab[1], b |-> ab[2],
                   sqrts |-> sqrts, processes |-> processes,
                   root |-> DecayTree(reg, ab[1], ab[2], processes, sqrts)]
  /\ UNCHANGED <<config, call, cell,
               cross, final_state_xs, xs_dump, scan, outcomes>>

\* auto final_state_xs = tree.final_state_cross_sections();
FinalStates ==
  /\ tree.built
  /\ ~final_state_xs.given
  /\ final_state_xs' =
       [given |-> TRUE, deduplicated |-> FALSE,
        list |-> final_state_cross_sections(tree.reg, tree.root)]
  /\ UNCHANGED <<config, call, cell, cross, tree, xs_dump, scan, outcomes>>


(***************************************************************************)
(* deduplicate.  std::sort leaves entries of equal name in an unspecified  *)
(* order: SortedByName is the set of the orders it may produce.            *)
(***************************************************************************)
\* list without its first entry equal to entry
WithoutEntry(list, entry) ==
  LET k == CHOOSE i \in 1..Len(list) :
              list[i] = entry /\ \A j \in 1..(i - 1) : list[j] # entry
  IN  SubSeq(list, 1, k - 1) \o SubSeq(list, k + 1, Len(list))

RECURSIVE SortedByName(_)
SortedByName(list) ==
  IF list = <<>> THEN {<<>>}
  ELSE LET first == {list[i] : i \in
                       {i \in 1..Len(list) :
                          \A j \in 1..Len(list) :
                             ~NameLess(list[j].name_, list[i].name_)}}
       IN  UNION {{<<entry>> \o rest
                     : rest \in SortedByName(WithoutEntry(list, entry))}
                  : entry \in first}

\* a slip: the scan goes on behind the merged entry
AfterMerge_Advances(adjacent) == adjacent + 1

\* current = adjacent;
AfterMerge(adjacent) == adjacent

\* the while loop of deduplicate, from position current on
RECURSIVE DeduplicateLoop(_, _)
DeduplicateLoop(list, current) ==
  LET equal == {i \in current..(Len(list) - 1) :
                   list[i].name_ = list[i + 1].name_}
      adjacent == CHOOSE i \in equal : \A j \in equal : i <= j
      merged == [i \in 1..(Len(list) - 1) |->
                   IF i < adjacent THEN list[i]
                   ELSE IF i = adjacent
                   THEN [list[i] EXCEPT !.cross_section_ =
                            RAdd(@, list[i + 1].cross_section_)]
                   ELSE list[i + 1]]
  IN  IF equal = {} THEN list
      ELSE DeduplicateLoop(merged, AfterMerge(adjacent))

\* the lists deduplicate may leave of list
deduplicate(list) == {DeduplicateLoop(s, 1) : s \in SortedByName(list)}

\* deduplicate(final_state_xs);
Deduplicate ==
  /\ final_state_xs.given
  /\ ~final_state_xs.deduplicated
  /\ xs_dump.points = 0
  /\ \E list \in deduplicate(final_state_xs.list) :
       final_state_xs' = [given |-> TRUE, deduplicated |-> TRUE,
                          again |-> FALSE, once |-> <<>>,
                          input |-> final_state_xs.list, list |-> list]
  /\ UNCHANGED <<config, call, cell, cross, tree, xs_dump, scan, outcomes>>


\* the column name "total"
TotalName == <<20, 15, 20, 1, 12>>

RECURSIVE SumOfSeconds(_)
SumOfSeconds(xs) ==
  IF xs = <<>> THEN Zero ELSE RAdd(Head(xs).second, SumOfSeconds(Tail(xs)))

\* the end of the loop body of dump_cross_sections for the one momentum
\* point of the query: the total, then every deduplicated final state
\* whose name is not empty
RecordPoint ==
  /\ tree.built
  /\ final_state_xs.given
  /\ final_state_xs.deduplicated
  /\ xs_dump.points = 0
  /\ LET list == final_state_xs.list
         kept == {i \in 1..Len(list) : list[i].name_ # <<>>}
         names == {list[i].name_ : i \in kept}
         entry(nm) == list[CHOOSE i \in kept : list[i].name_ = nm]
     IN  xs_dump' =
           [points |-> 1, erased |-> FALSE,
            columns |->
              [nm \in names \cup {TotalName} |->
                 IF nm = TotalName
                 THEN <<[first |-> tree.sqrts, second |-> tree.root.weight_]>>
                 ELSE <<[first |-> tree.sqrts,
                         second |-> entry(nm).cross_section_]>>],
            outgoing_total_mass |->
              [nm \in names \cup {TotalName} |->
                 IF nm = TotalName THEN -1 ELSE entry(nm).mass_]]
  /\ UNCHANGED <<config, call, cell,
               cross, tree, final_state_xs, scan, outcomes>>

\* "Get rid of cross sections that are zero": the columns whose sum over
\* all energies is zero are erased
EraseZeroColumns ==
  /\ xs_dump.points = 1
  /\ ~xs_dump.erased
  /\ LET nonzero == {nm \in DOMAIN xs_dump.columns :
                        ~REq(SumOfSeconds(xs_dump.columns[nm]), Zero)}
     IN  xs_dump' = [xs_dump EXCEPT
                       !.erased = TRUE,
                       !.columns = [nm \in nonzero |-> xs_dump.columns[nm]]]
  /\ UNCHANGED <<config, call, cell,
               cross, tree, final_state_xs, scan, outcomes>>

\* dump_cross_sections and deduplicate read none of coll_crit_,
\* testparticles_, N_tot_, N_proj_ and nucleon_has_interacted_: one
\* construction stands for all
InitQuery ==
  /\ Init
  /\ coll_crit_ = Geometric
  /\ testparticles_ = 1
  /\ N_tot_ = 0

NextTree == BuildTree \/ FinalStates \/ Deduplicate \/ RecordPoint
              \/ EraseZeroColumns

SpecTree == InitQuery /\ [][NextTree]_vars

(***************************************************************************)
(* deduplicate as a function of its argument: any list of at most          *)
(* MaxEntries entries is handed to it.                                     *)
(***************************************************************************)
EntryNames == {<<1>>, <<1, 1>>, <<2>>}

Entries ==
  [name_ : EntryNames, cross_section_ : {Zero, R(1, 2), One}, mass_ : {1, 2}]

GivenList ==
  /\ ~tree.built
  /\ ~final_state_xs.given
  /\ \E n \in 0..MaxEntries :
       \E list \in [1..n -> Entries] :
          final_state_xs' = [given |-> TRUE, deduplicated |-> FALSE,
                             list |-> list]
  /\ UNCHANGED <<config, call, cell, cross, tree, xs_dump, scan, outcomes>>

\* deduplicate applied once more, to the list it has left
DeduplicateAgain ==
  /\ ~tree.built
  /\ final_state_xs.given
  /\ final_state_xs.deduplicated
  /\ ~final_state_xs.again
  /\ \E list \in deduplicate(final_state_xs.list) :
       final_state_xs' = [final_state_xs EXCEPT !.again = TRUE,
                                                !.list = list,
                                                !.once = final_state_xs.list]
  /\ UNCHANGED <<config, call, cell, cross, tree, xs_dump, scan, outcomes>>

NextDeduplicate == GivenList \/ Deduplicate \/ DeduplicateAgain

SpecDeduplicate == InitQuery /\ [][NextDeduplicate]_vars

(***************************************************************************)
(* dump_cross_sections over all its momentum points: the scan of the       *)
(* momenta, the erasure of the columns that sum to zero, the ordering of   *)
(* the channels and the printed table.  A channel's description is the     *)
(* concatenated names of its products.  Momenta and energies are integers: *)
(* the energy of a point grows strictly with its momentum, by one unit     *)
(* per unit of momentum, and two energies are within really_small of each  *)
(* other when they are equal.                                              *)
(***************************************************************************)
\* the registries of a scan: X of mass 2 with any of its decay lists, Y of
\* mass 3 that is stuck or decays into two stable particles
ScanRegistries ==
  {reg \in Registries :
     /\ reg.mass["X"] = 2
     /\ reg.mass["Y"] = 3
     /\ reg.decay_mode_list["Y"] \in
          {<<>>, <<[weight |-> One, particle_types |-> <<"a", "a">>]>>}}

\* act->collision_channels() at one point of a scan: nothing, a channel of
\* weight 0, the elastic channel, a faint elastic channel of 0.00000025 mb,
\* one resonance, or two channels, of equal products or not
ScanProcessLists(a, b) ==
  LET zero == [weight |-> Zero, particle_types |-> <<a, b>>]
      el == [weight |-> R(2, 1), particle_types |-> <<a, b>>]
      faint == [weight |-> R(1, 4000000), particle_types |-> <<a, b>>]
      resX == [weight |-> One, particle_types |-> <<"X">>]
  IN  {<<>>, <<zero>>, <<el>>, <<faint>>, <<resX>>, <<el, resX>>,
       <<resX, resX>>}

\* the lists of momenta a caller may hand over: empty, or up to MaxPoints
\* momenta in any order, duplicates included
PlabLists == UNION {[1..n -> 0..MaxPlab] : n \in 0..MaxPoints}

\* std::sort(plab.begin(), plab.end())
RECURSIVE SortedPlab(_)
SortedPlab(plab) ==
  IF plab = <<>> THEN <<>>
  ELSE LET k == CHOOSE i \in 1..Len(plab) :
                   \A j \in 1..Len(plab) :
                      plab[i] < plab[j] \/ (plab[i] = plab[j] /\ i <= j)
       IN  <<plab[k]>> \o SortedPlab(SubSeq(plab, 1, k - 1)
                                       \o SubSeq(plab, k + 1, Len(plab)))

\* plab.erase(std::unique(plab.begin(), plab.end()), plab.end())
RECURSIVE UniquePlab(_)
UniquePlab(plab) ==
  IF Len(plab) < 2 THEN plab
  ELSE IF plab[1] = plab[2] THEN UniquePlab(Tail(plab))
  ELSE <<plab[1]>> \o UniquePlab(Tail(plab))

\* n_momentum_points as the first lines of dump_cross_sections leave it:
\* the size of plab as handed over, or the default number of points
MomentumPoints(plab) ==
  IF Len(plab) > 0 THEN Len(plab) ELSE DefaultMomentumPoints

\* plab.at(i) throws std::out_of_range
OutOfRange(plab, i) == Len(plab) > 0 /\ i >= Len(plab)

\* sqrts of point i: from plab.at(i), or from momentum_step * (i + 1)
PointSqrts(plab, i, m_a, m_b) ==
  IF Len(plab) > 0 THEN m_a + m_b + plab[i + 1] ELSE m_a + m_b + (i + 1)

\* xs_dump[nm].push_back(pair)
PushBack(columns, nm, pair) ==
  [c \in DOMAIN columns \cup {nm} |->
     IF c # nm THEN columns[c]
     ELSE IF nm \in DOMAIN columns THEN Append(columns[nm], pair)
     ELSE <<pair>>]

\* outgoing_total_mass[nm] = mass
SetMass(outgoing_total_mass, nm, mass) ==
  [c \in DOMAIN outgoing_total_mass \cup {nm} |->
     IF c = nm THEN mass ELSE outgoing_total_mass[c]]

\* the loop over the channels when final_state is false: a channel of
\* weight xs > 0 is added to the last entry of its column if that entry
\* is of this energy, and appended to the column otherwise
RECURSIVE RecordChannels(_, _, _, _)
RecordChannels(dump, reg, processes, sqrts) ==
  IF processes = <<>> THEN dump
  ELSE
    LET process == Head(processes)
        xs == process.weight
        description == StateName(process.particle_types)
        m_tot == SumOfMasses(reg, process.particle_types)
        column == IF description \in DOMAIN dump.columns
                  THEN dump.columns[description] ELSE <<>>
        last == Len(column)
        columns ==
          IF column # <<>> /\ column[last].first = sqrts
          THEN [dump.columns EXCEPT
                  ![description][last].second = RAdd(@, xs)]
          ELSE PushBack(dump.columns, description,
                        [first |-> sqrts, second |-> xs])
    IN  IF ~RGt(xs, Zero)
        THEN RecordChannels(dump, reg, Tail(processes), sqrts)
        ELSE RecordChannels(
               [dump EXCEPT
                  !.columns = columns,
                  !.outgoing_total_mass = SetMass(@, description, m_tot)],
               reg, Tail(processes), sqrts)

\* xs_dump["total"].push_back(std::make_pair(sqrts, act->cross_section()));
\* outgoing_total_mass["total"] = -1.0;
RecordTotal(dump, sqrts, cross_section) ==
  [dump EXCEPT
     !.columns = PushBack(@, TotalName,
                          [first |-> sqrts, second |-> cross_section]),
     !.outgoing_total_mass = SetMass(@, TotalName, -1)]

\* the loop over the deduplicated final states, those of empty name left
\* out
RECURSIVE RecordFinalStates(_, _, _)
RecordFinalStates(dump, list, sqrts) ==
  IF list = <<>> THEN dump
  ELSE
    LET p == Head(list)
    IN  IF p.name_ = <<>> THEN RecordFinalStates(dump, Tail(list), sqrts)
        ELSE RecordFinalStates(
               [dump EXCEPT
                  !.outgoing_total_mass = SetMass(@, p.name_, p.mass_),
                  !.columns = PushBack(@, p.name_,
                                       [first |-> sqrts,
                                        second |-> p.cross_section_])],
               Tail(list), sqrts)

\* dump_cross_sections(a, b, m_a, m_b, final_state, plab) up to its loop
\* over the momentum points
DumpStart ==
  /\ scan.status = "idle"
  /\ \E reg \in ScanRegistries, ab \in RootPairs, final_state \in BOOLEAN,
        plab \in PlabLists :
       scan' = [status |-> "scanning", reg |-> reg,
                a |-> ab[1], b |-> ab[2],
                m_a |-> reg.mass[ab[1]], m_b |-> reg.mass[ab[2]],
                final_state |-> final_state, given |-> plab,
                n_momentum_points |-> MomentumPoints(plab),
                plab |-> UniquePlab(SortedPlab(plab)),
                i |-> 0, all_channels |-> <<>>, rows |-> <<>>]
  /\ xs_dump' = [points |-> 0, erased |-> FALSE, columns |-> <<>>,
                 outgoing_total_mass |-> <<>>]
  /\ UNCHANGED <<config, call, cell, cross, tree, final_state_xs, outcomes>>

\* one turn of the loop over the momentum points
ScanPoint ==
  /\ scan.status = "scanning"
  /\ scan.i < scan.n_momentum_points
  /\ IF OutOfRange(scan.plab, scan.i)
     THEN /\ scan' = [scan EXCEPT !.status = "out_of_range"]
          /\ UNCHANGED xs_dump
     ELSE
       LET sqrts == PointSqrts(scan.plab, scan.i, scan.m_a, scan.m_b)
       IN  \E processes \in ScanProcessLists(scan.a, scan.b) :
             \E list \in
                 IF scan.final_state
                 THEN deduplicate(
                        final_state_cross_sections(
                          scan.reg,
                          DecayTree(scan.reg, scan.a, scan.b, processes,
                                    sqrts)))
                 ELSE {<<>>} :
               LET channels ==
                     IF scan.final_state THEN xs_dump
                     ELSE RecordChannels(xs_dump, scan.reg, processes, sqrts)
                   total == RecordTotal(channels, sqrts,
                                        TotalWeight(processes))
                   recorded == RecordFinalStates(total, list, sqrts)
               IN  /\ xs_dump' = [recorded EXCEPT !.points = @ + 1]
                   /\ scan' = [scan EXCEPT !.i = @ + 1]
  /\ UNCHANGED <<config, call, cell, cross, tree, final_state_xs, outcomes>>

\* a slip: a column goes when its last entry is zero
SumIsZero_LastEntry(xs) == REq(xs[Len(xs)].second, Zero)

\* if (sum == 0.), sum being the cross sections of the column summed over
\* all energies
SumIsZero(xs) == REq(SumOfSeconds(xs), Zero)

\* "Get rid of cross sections that are zero", after the last point
ScanErase ==
  /\ scan.status = "scanning"
  /\ scan.i = scan.n_momentum_points
  /\ ~xs_dump.erased
  /\ LET kept == {nm \in DOMAIN xs_dump.columns :
                     ~SumIsZero(xs_dump.columns[nm])}
     IN  xs_dump' = [xs_dump EXCEPT
                       !.erased = TRUE,
                       !.columns = [nm \in kept |-> xs_dump.columns[nm]]]
  /\ UNCHANGED <<config, call, cell, cross, tree, final_state_xs, scan,
                 outcomes>>

\* the orders std::sort may leave all_channels in, under the comparison of
\* outgoing_total_mass: channels of equal mass come in any order
RECURSIVE SortedByMass(_, _)
SortedByMass(channels, outgoing_total_mass) ==
  IF channels = {} THEN {<<>>}
  ELSE UNION
         {{<<c>> \o rest :
             rest \in SortedByMass(channels \ {c}, outgoing_total_mass)}
          : c \in {c \in channels :
                     \A o \in channels :
                        ~(outgoing_total_mass[o] < outgoing_total_mass[c])}}

\* the cross section the print loop finds in a column for the energy
\* sqrts: that of the first entry not below sqrts if it is of this energy,
\* and 0 otherwise
Lookup(energy_and_xs, sqrts) ==
  LET reached == {j \in 1..Len(energy_and_xs) :
                     ~(energy_and_xs[j].first < sqrts)}
      j == CHOOSE k \in reached : \A o \in reached : k <= o
  IN  IF reached # {} /\ energy_and_xs[j].first = sqrts
      THEN energy_and_xs[j].second
      ELSE Zero

\* std::printf("%16.6f", xs): the six decimals printed, as a number of
\* millionths
Printed(xs) == (2 * xs.n * 1000000 + xs.d) \div (2 * xs.d)

\* the rows of the print loop from row i on
RECURSIVE PrintedRows(_, _, _, _)
PrintedRows(s, columns, all_channels, i) ==
  IF i >= s.n_momentum_points THEN <<>>
  ELSE
    LET sqrts == PointSqrts(s.plab, i, s.m_a, s.m_b)
    IN  <<[sqrts |-> sqrts,
           cells |-> [k \in 1..Len(all_channels) |->
                        Printed(Lookup(columns[all_channels[k]], sqrts))]]>>
          \o PrintedRows(s, columns, all_channels, i + 1)

\* the ordering of the channels, the header and the table
ScanPrint ==
  /\ scan.status = "scanning"
  /\ xs_dump.erased
  /\ \E all_channels \in SortedByMass(DOMAIN xs_dump.columns,
                                      xs_dump.outgoing_total_mass) :
       scan' = [scan EXCEPT
                  !.status = "printed",
                  !.all_channels = all_channels,
                  !.rows = PrintedRows(scan, xs_dump.columns, all_channels,
                                       0)]
  /\ UNCHANGED <<config, call, cell, cross, tree, final_state_xs, xs_dump,
                 outcomes>>

NextScan == DumpStart \/ ScanPoint \/ ScanErase \/ ScanPrint

SpecScan == InitQuery /\ [][NextScan]_vars


(***************************************************************************)
(* Properties of the decay tree and of deduplicate.                        *)
(***************************************************************************)
\* the (parent, child) pairs of the tree below node
RECURSIVE Edges(_)
Edges(node) ==
  UNION {{<<node, node.children_[k]>>} \cup Edges(node.children_[k])
           : k \in 1..Len(node.children_)}

Count(particles, p) ==
  Cardinality({i \in 1..Len(particles) : particles[i] = p})

IsSortedByName(state) ==
  \A i \in 1..(Len(state) - 1) :
     ~NameLess(name(state[i + 1]), name(state[i]))

\* C15: in a tree built by dump_cross_sections every non-root node's state
\* is, as a multiset, its parent's state minus the node's initial particles
\* plus its final particles, and is stored in ascending order of type name
C15_NodeStates ==
  tree.built =>
    \A e \in Edges(tree.root) :
       /\ IsSortedByName(e[2].state_)
       /\ \A p \in ParticleTypes :
             Count(e[2].state_, p) =
               Count(e[1].state_, p) - Count(e[2].initial_particles_, p)
                 + Count(e[2].final_particles_, p)

\* a decay below a process node whose products, pushed to the back of the
\* state, had to be moved by the sort
C15_Witness ==
  /\ tree.built
  /\ \E e \in Edges(tree.root) :
        /\ e[1] # tree.root
        /\ e[2].state_ #
             EraseAll(e[1].state_, e[2].initial_particles_)
               \o e[2].final_particles_


\* node has a child that decays ptype by the branch decay
HasDecayChild(node, ptype, decay) ==
  \E k \in 1..Len(node.children_) :
     /\ node.children_[k].initial_particles_ = <<ptype>>
     /\ node.children_[k].final_particles_ = decay.particle_types

\* the energy left for the decay of ptype in state when the total energy
\* is sqrts
AvailableEnergy(reg, state, ptype, sqrts) ==
  sqrts - (SumOfMasses(reg, state) - reg.mass[ptype])

\* C17: at every node at every depth, add_decays adds a child for a decay
\* branch of an unstable particle of the node's state if and only if the
\* branch's product masses do not exceed the total energy of the query
\* minus the masses of all other particles of the state
C17_ChildIffAllowed ==
  tree.built =>
    \A e \in Edges(tree.root) :
       \A i \in 1..Len(e[2].state_) :
          LET ptype == e[2].state_[i]
              modes == tree.reg.decay_mode_list[ptype]
          IN  ~is_stable(ptype) =>
                \A k \in 1..Len(modes) :
                   HasDecayChild(e[2], ptype, modes[k])
                     <=> SumOfMasses(tree.reg, modes[k].particle_types)
                           <= AvailableEnergy(tree.reg, e[2].state_, ptype,
                                              tree.sqrts)


\* a + a -> X X at sqrts = 4 with m_X = 2 and X -> a a: after the first
\* X has decayed the second one, with energy 4 - 2 left for products of
\* mass 2, is given no child
C17_Witness ==
  /\ tree.built
  /\ tree.sqrts = 4
  /\ tree.reg.mass["X"] = 2
  /\ \E e \in Edges(tree.root) :
        /\ e[1].state_ = <<"X", "X">>
        /\ e[2].state_ = <<"a", "a", "X">>
        /\ \E k \in 1..Len(tree.reg.decay_mode_list["X"]) :
              LET decay == tree.reg.decay_mode_list["X"][k]
              IN  /\ SumOfMasses(tree.reg, decay.particle_types)
                       <= AvailableEnergy(tree.reg, e[2].state_, "X",
                                          tree.sqrts)
                  /\ ~HasDecayChild(e[2], "X", decay)


\* the leaves of the tree below node, node included
RECURSIVE Leaves(_)
Leaves(node) ==
  IF node.children_ = <<>> THEN {node}
  ELSE UNION {Leaves(node.children_[k]) : k \in 1..Len(node.children_)}

\* the names of the final states reached from node by the paths that decay
\* first, then second
NamesVia(node, first, second) ==
  UNION {UNION {{StateName(leaf.state_) : leaf \in Leaves(g)}
                  : g \in {c.children_[k] : k \in
                             {k \in 1..Len(c.children_) :
                                c.children_[k].initial_particles_
                                  = <<second>>}}}
           : c \in {node.children_[k] : k \in
                      {k \in 1..Len(node.children_) :
                         node.children_[k].initial_particles_ = <<first>>}}}

\* C16: for a node whose state holds two unstable particles X and Y, the
\* final-state names reached by decaying X and then Y are those reached by
\* decaying Y and then X, whatever the registry, the masses and the energy
C16_OrderIndependent ==
  tree.built =>
    \A e \in Edges(tree.root) :
       (Count(e[2].state_, "X") > 0 /\ Count(e[2].state_, "Y") > 0)
         => NamesVia(e[2], "X", "Y") = NamesVia(e[2], "Y", "X")

\* a + a -> X Y at sqrts = 6 with m_X = 2, m_Y = 3 and both decaying into
\* a a only: the final state a a a a is reached by decaying Y first and
\* not by decaying X first
C16_Witness ==
  /\ tree.built
  /\ tree.sqrts = 6
  /\ tree.reg.mass["X"] = 2
  /\ tree.reg.mass["Y"] = 3
  /\ Len(tree.reg.decay_mode_list["X"]) = 1
  /\ Len(tree.reg.decay_mode_list["Y"]) = 1
  /\ \E e \in Edges(tree.root) :
        /\ e[1] = tree.root
        /\ e[2].state_ = <<"X", "Y">>
        /\ NamesVia(e[2], "Y", "X") = {<<1, 1, 1, 1>>}
        /\ NamesVia(e[2], "X", "Y") = {}


\* the paths (child indices from the root down) of the leaves below node,
\* in the order final_state_cross_sections_helper visits them
RECURSIVE LeafPaths(_), LeafPathsOfChildren(_, _)
LeafPaths(node) ==
  IF node.children_ = <<>> THEN << <<>> >>
  ELSE LeafPathsOfChildren(node, 1)

LeafPathsOfChildren(node, k) ==
  IF k > Len(node.children_) THEN <<>>
  ELSE LET below == LeafPaths(node.children_[k])
       IN  [i \in 1..Len(below) |-> <<k>> \o below[i]]
             \o LeafPathsOfChildren(node, k + 1)

RECURSIVE NodeAt(_, _)
NodeAt(node, path) ==
  IF path = <<>> THEN node
  ELSE NodeAt(node.children_[Head(path)], Tail(path))

\* the list final_state_cross_sections returned, before deduplicate
RawList ==
  IF final_state_xs.deduplicated THEN final_state_xs.input
  ELSE final_state_xs.list

\* the state of node holds an unstable particle none of whose decay
\* branches fits into the energy left for it at total energy sqrts
HasStuckParticle(reg, node, sqrts) ==
  \E i \in 1..Len(node.state_) :
     LET ptype == node.state_[i]
         modes == reg.decay_mode_list[ptype]
     IN  /\ ~is_stable(ptype)
         /\ \A k \in 1..Len(modes) :
               SumOfMasses(reg, modes[k].particle_types)
                 > AvailableEnergy(reg, node.state_, ptype, sqrts)

\* the leaf at path lies below (or is) a node expanded by add_decays
\* whose state holds a stuck particle
BelowStuckNode(path) ==
  \E n \in 1..Len(path) :
     HasStuckParticle(tree.reg, NodeAt(tree.root, SubSeq(path, 1, n)),
                      tree.sqrts)

\* C18: a node expanded by add_decays whose state holds an unstable
\* particle without an allowed decay has weight 0, every final-state cross
\* section of a leaf of its subtree is 0, and such a leaf's name is in the
\* report only if another leaf of that name has a weight that is not 0
C18_StuckIsZero ==
  tree.built =>
    /\ \A e \in Edges(tree.root) :
          HasStuckParticle(tree.reg, e[2], tree.sqrts)
            => REq(e[2].weight_, Zero)
    /\ final_state_xs.given =>
          \A i \in 1..Len(RawList) :
             BelowStuckNode(LeafPaths(tree.root)[i]) =>
               /\ REq(RawList[i].cross_section_, Zero)
               /\ (xs_dump.points = 1 /\ xs_dump.erased
                     /\ RawList[i].name_ \in DOMAIN xs_dump.columns)
                    => \E j \in 1..Len(RawList) :
                          /\ RawList[j].name_ = RawList[i].name_
                          /\ ~REq(RawList[j].cross_section_, Zero)

\* the report of a query whose only channel produces the single resonance
\* X, the one decay of X being above the energy: nothing but the total
C18_Witness ==
  /\ tree.built
  /\ xs_dump.points = 1
  /\ xs_dump.erased
  /\ Len(tree.processes) = 1
  /\ tree.processes[1].particle_types = <<"X">>
  /\ Len(tree.reg.decay_mode_list["X"]) = 1
  /\ SumOfMasses(tree.reg, tree.reg.decay_mode_list["X"][1].particle_types)
       > tree.sqrts
  /\ Len(RawList) = 1
  /\ RawList[1].name_ = name("X")
  /\ DOMAIN xs_dump.columns = {TotalName}


\* the product of the weights of the nodes from the one at path up to, and
\* without, node
RECURSIVE PathWeight(_, _)
PathWeight(node, path) ==
  IF path = <<>> THEN One
  ELSE RMul(node.children_[Head(path)].weight_,
            PathWeight(node.children_[Head(path)], Tail(path)))

\* C19: final_state_cross_sections returns one entry per leaf; its weight
\* is the product of the weights on the path from the leaf up to and
\* without the root, its name the type names of the leaf's state in
\* canonical order, its mass the sum of their masses; two identical stable
\* types with one elastic channel give one entry of the elastic weight
C19_OneEntryPerLeaf ==
  (tree.built /\ final_state_xs.given) =>
    LET paths == LeafPaths(tree.root)
    IN  /\ Len(RawList) = Len(paths)
        /\ \A i \in 1..Len(paths) :
              LET leaf == NodeAt(tree.root, paths[i])
              IN  /\ REq(RawList[i].cross_section_,
                         PathWeight(tree.root, paths[i]))
                  /\ RawList[i].name_ = StateName(SortByName(leaf.state_))
                  /\ RawList[i].mass_ = SumOfMasses(tree.reg, leaf.state_)
        /\ (/\ tree.a = tree.b
            /\ Len(tree.processes) = 1
            /\ tree.processes[1].particle_types = <<tree.a, tree.b>>
            /\ RGt(tree.processes[1].weight, Zero))
             => /\ Len(RawList) = 1
                /\ REq(RawList[1].cross_section_, tree.processes[1].weight)

\* b + a with no channel of positive weight: the root is the only leaf and
\* its entry is named "ba", the order the pair was given in
C19_Witness ==
  /\ tree.built
  /\ final_state_xs.given
  /\ tree.a = "b"
  /\ tree.b = "a"
  /\ tree.root.children_ = <<>>
  /\ Len(RawList) = 1
  /\ RawList[1].name_ = name("b") \o name("a")
  /\ REq(RawList[1].cross_section_, One)


\* the sum of the weights of the entries of list named nm
RECURSIVE SumOfName(_, _)
SumOfName(list, nm) ==
  IF list = <<>> THEN Zero
  ELSE IF Head(list).name_ = nm
  THEN RAdd(Head(list).cross_section_, SumOfName(Tail(list), nm))
  ELSE SumOfName(Tail(list), nm)

NamesOf(list) == {list[i].name_ : i \in 1..Len(list)}

\* C20: whatever list it is given, deduplicate leaves a list in ascending
\* order of name that holds every name of the input once, with the sum of
\* the weights of all input entries of that name
C20_DeduplicateSums ==
  (final_state_xs.given /\ final_state_xs.deduplicated) =>
    LET input == final_state_xs.input
        list == final_state_xs.list
    IN  /\ \A i \in 1..(Len(list) - 1) :
              NameLess(list[i].name_, list[i + 1].name_)
        /\ NamesOf(list) = NamesOf(input)
        /\ \A i \in 1..Len(list) :
              REq(list[i].cross_section_, SumOfName(input, list[i].name_))

\* three entries of one name and not of one weight, merged into one
C20_Witness ==
  /\ final_state_xs.given
  /\ final_state_xs.deduplicated
  /\ ~tree.built
  /\ Len(final_state_xs.input) = 3
  /\ Cardinality(NamesOf(final_state_xs.input)) = 1
  /\ \A i \in 1..3 : ~REq(final_state_xs.input[i].cross_section_, Zero)
  /\ final_state_xs.input[1].cross_section_
       # final_state_xs.input[2].cross_section_
  /\ Len(final_state_xs.list) = 1
  /\ REq(final_state_xs.list[1].cross_section_,
         SumOfName(final_state_xs.input, final_state_xs.list[1].name_))


\* C21: deduplicate applied to a list it has itself left changes nothing:
\* the same entries, in the same order, with the same weights and masses
C21_Idempotent ==
  (final_state_xs.given /\ final_state_xs.deduplicated
     /\ final_state_xs.again)
    => final_state_xs.list = final_state_xs.once

\* a list of three entries, two of them merged by the first application,
\* handed to deduplicate again
C21_Witness ==
  /\ final_state_xs.given
  /\ final_state_xs.deduplicated
  /\ final_state_xs.again
  /\ Len(final_state_xs.input) = 3
  /\ Len(final_state_xs.once) = 2
  /\ Len(final_state_xs.list) = 2


\* add_decays found an unstable particle of node's state without any
\* possible decay: it has given the node no child for it
LeftStuck(node) ==
  \E i \in 1..Len(node.state_) :
     /\ ~is_stable(node.state_[i])
     /\ \A k \in 1..Len(node.children_) :
           node.children_[k].initial_particles_ # <<node.state_[i]>>

\* C24: a child add_decays adds has the branching weight of its decay
\* divided by the number of unstable particles, counted with multiplicity
\* and whether they can decay or not, of the parent's state (and keeps it
\* unless its own expansion finds a stuck particle and sets it to 0)
C24_ChildWeightOverUnstable ==
  tree.built =>
    \A e \in Edges(tree.root) :
       Len(e[2].initial_particles_) = 1 =>
         LET ptype == e[2].initial_particles_[1]
             modes == tree.reg.decay_mode_list[ptype]
             n == Count(e[1].state_, "X") + Count(e[1].state_, "Y")
         IN  \E k \in 1..Len(modes) :
                /\ modes[k].particle_types = e[2].final_particles_
                /\ REq(e[2].weight_,
                       IF LeftStuck(e[2]) THEN Zero
                       ELSE RDiv(modes[k].weight, R(n, 1)))

\* the state X X: each child of the decay of one X into a a or a b, of
\* branching weight 1/2, has the weight 1/4
C24_Witness ==
  /\ tree.built
  /\ \E e \in Edges(tree.root) :
        /\ e[1].state_ = <<"X", "X">>
        /\ e[2].initial_particles_ = <<"X">>
        /\ Len(tree.reg.decay_mode_list["X"]) = 2
        /\ ~LeftStuck(e[2])
        /\ REq(e[2].weight_, R(1, 4))


\* the nodes of the tree below node, node included
RECURSIVE Subtree(_)
Subtree(node) ==
  {node} \cup UNION {Subtree(node.children_[k])
                       : k \in 1..Len(node.children_)}

\* every decay branch of every unstable particle met in the expansion of
\* node was added: none was kinematically impossible
EveryDecayAdded(reg, node) ==
  \A sub \in Subtree(node) :
     \A i \in 1..Len(sub.state_) :
        \A k \in 1..Len(reg.decay_mode_list[sub.state_[i]]) :
           HasDecayChild(sub, sub.state_[i],
                         reg.decay_mode_list[sub.state_[i]][k])

\* the branching weights of ptype sum to 1
RECURSIVE SumOfWeights(_)
SumOfWeights(modes) ==
  IF modes = <<>> THEN Zero
  ELSE RAdd(Head(modes).weight, SumOfWeights(Tail(modes)))

BranchingsSumToOne(reg) ==
  \A ptype \in {"X", "Y"} :
     REq(SumOfWeights(reg.decay_mode_list[ptype]), One)

RECURSIVE SumOfCrossSections(_)
SumOfCrossSections(list) ==
  IF list = <<>> THEN Zero
  ELSE RAdd(Head(list).cross_section_, SumOfCrossSections(Tail(list)))

\* the entries of the list returned that stem from the k-th child of the
\* root
EntriesBelowChild(k) ==
  LET paths == LeafPaths(tree.root)
      at == {i \in 1..Len(paths) : Head(paths[i]) = k}
  IN  SelectSeq([i \in 1..Len(paths) |->
                   IF i \in at THEN RawList[i]
                   ELSE [name_ |-> <<>>, cross_section_ |-> Zero,
                         mass_ |-> 0 - 1]],
                LAMBDA entry : entry.mass_ # 0 - 1)

RECURSIVE Depth(_)
Depth(node) ==
  IF node.children_ = <<>> THEN 0
  ELSE LET below == {Depth(node.children_[k]) : k \in 1..Len(node.children_)}
       IN  1 + CHOOSE d \in below : \A other \in below : other <= d

\* every mass of the registry is strictly positive and every decay branch
\* has at least two products
PositiveMassesTwoProducts(reg) ==
  /\ \A ptype \in ParticleTypes : reg.mass[ptype] > 0
  /\ \A ptype \in ParticleTypes :
        \A k \in 1..Len(reg.decay_mode_list[ptype]) :
           Len(reg.decay_mode_list[ptype][k].particle_types) >= 2

\* C30: with strictly positive masses and at least two products per
\* branch add_decays ends with a finite tree: every decay it adds makes
\* the state longer while the state's mass stays within the total
\* energy, so no path is longer than the energy allows
C30_FiniteTree ==
  (tree.built /\ PositiveMassesTwoProducts(tree.reg)) =>
    /\ \A e \in Edges(tree.root) :
          Len(e[2].initial_particles_) = 1 =>
            /\ Len(e[2].state_) > Len(e[1].state_)
            /\ SumOfMasses(tree.reg, e[2].state_) <= tree.sqrts
    /\ Depth(tree.root) <= tree.sqrts + 1

\* a registry in which X decays into a Y and Y into a X, a cycle, at the
\* largest energy: the expansion goes three decays deep and ends
C30_Witness ==
  /\ tree.built
  /\ tree.sqrts = MaxSqrts
  /\ tree.reg.decay_mode_list["X"] # <<>>
  /\ tree.reg.decay_mode_list["Y"] # <<>>
  /\ tree.reg.decay_mode_list["X"][1].particle_types = <<"a", "Y">>
  /\ tree.reg.decay_mode_list["Y"][1].particle_types = <<"a", "X">>
  /\ Depth(tree.root) >= 4


\* the sum of what the point recorded under the names of final states
RECURSIVE SumOfColumns(_, _)
SumOfColumns(columns, names) ==
  IF names = {} THEN Zero
  ELSE LET nm == CHOOSE x \in names : TRUE
       IN  RAdd(SumOfSeconds(columns[nm]),
                SumOfColumns(columns, names \ {nm}))

NoOpenChannel ==
  \A k \in 1..Len(tree.processes) : ~RGt(tree.processes[k].weight, Zero)

\* C27: in final-state mode an energy without a channel of positive weight
\* records nothing but "total", and at every energy the recorded
\* final-state cross sections sum to no more than the total
C27_NothingWithoutChannel ==
  (tree.built /\ xs_dump.points = 1 /\ ~xs_dump.erased) =>
    /\ NoOpenChannel => DOMAIN xs_dump.columns = {TotalName}
    /\ ~RGt(SumOfColumns(xs_dump.columns,
                         DOMAIN xs_dump.columns \ {TotalName}),
            SumOfSeconds(xs_dump.columns[TotalName]))

\* a + a at an energy without any channel: total 0, and a final state
\* "aa" of cross section 1
C27_Witness ==
  /\ tree.built
  /\ xs_dump.points = 1
  /\ ~xs_dump.erased
  /\ tree.processes = <<>>
  /\ tree.a = "a"
  /\ tree.b = "a"
  /\ DOMAIN xs_dump.columns = {TotalName, name("a") \o name("a")}
  /\ REq(xs_dump.columns[TotalName][1].second, Zero)
  /\ REq(xs_dump.columns[name("a") \o name("a")][1].second, One)


(***************************************************************************)
(* Further properties of check_collision_two_part.                         *)
(***************************************************************************)
\* the call went on to add_all_scatterings
ChannelsEnumerated ==
  /\ IsTwoPart
  /\ call.stage \in {"probability", "draw", "accepted", "just_collided",
                     "distance"}

\* the call returned at the distance pre-filter
PreFilterRejected == IsTwoPart /\ call.stage = "too_far"

\* C25 as claimed: under the geometric and covariant criteria the channels
\* are enumerated only for pairs past spectator exclusion, the time window
\* and the distance pre-filter, and the pre-filter rejects a pair exactly
\* when its transverse distance squared exceeds
\* max_transverse_distance_sqr(testparticles); under the stochastic
\* criterion the pre-filter never rejects
C25_Claimed ==
  /\ (GeometricOrCovariant /\ ChannelsEnumerated) =>
        /\ ~SameSideSpectators
        /\ InTimeWindow
        /\ ~RGt(call.d2, max_transverse_distance_sqr(testparticles_))
  /\ (GeometricOrCovariant /\ IsTwoPart /\ ~SameSideSpectators
        /\ InTimeWindow) =>
        (PreFilterRejected
           <=> RGt(call.d2, max_transverse_distance_sqr(testparticles_)))
  /\ coll_crit_ = Stochastic => ~PreFilterRejected

\* C25 as amended: the same, the pre-filter rejecting a pair exactly when
\* its transverse distance squared is at or above
\* max_transverse_distance_sqr(testparticles)
C25_PreFilterAtOrAbove ==
  /\ (GeometricOrCovariant /\ ChannelsEnumerated) =>
        /\ ~SameSideSpectators
        /\ InTimeWindow
        /\ RLt(call.d2, max_transverse_distance_sqr(testparticles_))
  /\ (GeometricOrCovariant /\ IsTwoPart /\ ~SameSideSpectators
        /\ InTimeWindow) =>
        (PreFilterRejected
           <=> RGe(call.d2, max_transverse_distance_sqr(testparticles_)))
  /\ coll_crit_ = Stochastic => ~PreFilterRejected

\* a pair exactly at the maximum distance, with a cross section large
\* enough to reach it, is rejected by the pre-filter
C25_Witness ==
  /\ IsTwoPart
  /\ coll_crit_ = Geometric
  /\ ~SameSideSpectators
  /\ InTimeWindow
  /\ REq(call.d2, max_transverse_distance_sqr(testparticles_))
  /\ call.d2.n * PiNum * PairXs.d < PairXs.n * PiDen * call.d2.d
  /\ PreFilterRejected
  /\ call.kind = "none"


\* C26: a pair whose scaled total cross section is zero is never accepted,
\* under any criterion and for every draw of the uniform number in [0, 1]
C26_ZeroNeverAccepted ==
  (IsTwoPart /\ PairXs.n = 0) => call.kind # "action"

\* under the stochastic criterion a pair of zero cross section, hence of
\* probability zero, is accepted when the draw is exactly 0
C26_Witness ==
  /\ IsTwoPart
  /\ coll_crit_ = Stochastic
  /\ PairXs.n = 0
  /\ call.u.n = 0
  /\ call.stage = "accepted"
  /\ call.kind = "action"

\* C26, the rest of the case: a pair of zero cross section is accepted under
\* no criterion unless the draw is exactly 0
C26_ZeroAcceptedOnlyAtDrawZero ==
  (IsTwoPart /\ PairXs.n = 0 /\ call.kind = "action") =>
     /\ coll_crit_ = Stochastic
     /\ call.u.n = 0


(***************************************************************************)
(* Properties of dump_cross_sections over its momentum points.             *)
(***************************************************************************)
HasDuplicates(plab) ==
  \E i, j \in 1..Len(plab) : i < j /\ plab[i] = plab[j]

\* the distinct momenta of the list handed over
DistinctMomenta(plab) == {plab[i] : i \in 1..Len(plab)}

\* C29: when the list of momenta handed over holds duplicates,
\* dump_cross_sections removes them, scans each distinct momentum once and
\* completes, printing one row per distinct momentum: it never reads plab
\* past its deduplicated length
C29_DuplicatesScannedOnce ==
  (scan.status # "idle" /\ HasDuplicates(scan.given)) =>
     /\ Len(scan.plab) = Cardinality(DistinctMomenta(scan.given))
     /\ scan.status # "out_of_range"
     /\ xs_dump.points <= Len(scan.plab)
     /\ scan.status = "printed" => Len(scan.rows) = Len(scan.plab)

\* a list with a duplicate: every distinct momentum has been scanned once,
\* and the next turn of the loop has read plab past its end
C29_Witness ==
  /\ scan.status = "out_of_range"
  /\ HasDuplicates(scan.given)
  /\ Len(scan.plab) = Cardinality(DistinctMomenta(scan.given))
  /\ scan.i = Len(scan.plab)
  /\ xs_dump.points = Len(scan.plab)
  /\ scan.i < scan.n_momentum_points

\* C29, the rest of the case: plab is read past its end on no list without
\* duplicates, and every list with duplicates ends so
C29_OutOfRangeIffDuplicates ==
  /\ scan.status = "out_of_range" => HasDuplicates(scan.given)
  /\ scan.status = "printed" =>
       /\ ~HasDuplicates(scan.given)
       /\ Len(scan.rows) = scan.n_momentum_points


\* the channel columns of the printed table, in the order printed
PrintedChannels == {scan.all_channels[k] : k \in 1..Len(scan.all_channels)}

\* the columns from the second on come by ascending mass of the products
RestAscendingByMass ==
  \A k \in 2..(Len(scan.all_channels) - 1) :
     xs_dump.outgoing_total_mass[scan.all_channels[k]]
       <= xs_dump.outgoing_total_mass[scan.all_channels[k + 1]]

\* C22: in every report printed by dump_cross_sections the "total" column
\* is present and is the first channel column, and the other channel
\* columns follow by ascending total rest mass of the products
C22_TotalFirstThenByMass ==
  scan.status = "printed" =>
     /\ scan.all_channels # <<>>
     /\ scan.all_channels[1] = TotalName
     /\ RestAscendingByMass

\* a report over several energies without a "total" column: the total
\* cross section was zero at every energy and its column was erased
C22_Witness ==
  /\ scan.status = "printed"
  /\ Len(scan.rows) >= 2
  /\ TotalName \notin PrintedChannels
  /\ TotalName \in DOMAIN xs_dump.outgoing_total_mass

\* C22, the rest of the case: a report whose "total" column outlived the
\* zero-sum erasure prints it first and the others by ascending mass, and
\* a report that lost it prints what is left by ascending mass
C22_TotalFirstUnlessErased ==
  scan.status = "printed" =>
     /\ TotalName \in DOMAIN xs_dump.columns =>
          /\ scan.all_channels[1] = TotalName
          /\ RestAscendingByMass
     /\ TotalName \notin DOMAIN xs_dump.columns =>
          \A k \in 1..(Len(scan.all_channels) - 1) :
               xs_dump.outgoing_total_mass[scan.all_channels[k]]
                 <= xs_dump.outgoing_total_mass[scan.all_channels[k + 1]]


\* a step of the zero-sum erasure
ErasureStep ==
  /\ scan.status = "scanning"
  /\ ~xs_dump.erased
  /\ xs_dump'.erased

\* the erasure removes the entries that sum to zero over all scanned
\* energies and no other, and leaves the others as they were
ErasesExactlyZeroSums ==
  ErasureStep =>
     /\ DOMAIN xs_dump'.columns =
          {nm \in DOMAIN xs_dump.columns :
             ~REq(SumOfSeconds(xs_dump.columns[nm]), Zero)}
     /\ \A nm \in DOMAIN xs_dump'.columns :
           xs_dump'.columns[nm] = xs_dump.columns[nm]

\* the printed table has one column for each entry left, and no other
PrintsWhatIsLeft ==
  /\ PrintedChannels = DOMAIN xs_dump.columns
  /\ Len(scan.all_channels) = Cardinality(DOMAIN xs_dump.columns)

\* the k-th channel column of the printed table shows zero in every row
PrintedAllZero(k) ==
  \A row \in 1..Len(scan.rows) : scan.rows[row].cells[k] = 0

\* the k-th channel column holds a nonzero cross section, printed in the
\* row of its energy to six decimals
HoldsNonzero(k) ==
  LET energy_and_xs == xs_dump.columns[scan.all_channels[k]]
  IN  \E j \in 1..Len(energy_and_xs) :
        /\ ~REq(energy_and_xs[j].second, Zero)
        /\ \E row \in 1..Len(scan.rows) :
              /\ scan.rows[row].sqrts = energy_and_xs[j].first
              /\ scan.rows[row].cells[k] = Printed(energy_and_xs[j].second)

\* C23 as claimed: dump_cross_sections removes from the report exactly the
\* entries whose weights summed over all scanned energies are zero, every
\* entry of nonzero sum keeps its column, and no column of the printed
\* table has all-zero values
C23_Claimed ==
  /\ [][ErasesExactlyZeroSums]_vars
  /\ [](scan.status = "printed" =>
          /\ PrintsWhatIsLeft
          /\ \A k \in 1..Len(scan.all_channels) : ~PrintedAllZero(k))

\* C23 as amended: the same, every column of the printed table holding a
\* nonzero cross section at some scanned energy, which is printed to six
\* decimals and so as 0.000000 when it is below 0.0000005 mb
C23_ZeroSumsErased ==
  /\ [][ErasesExactlyZeroSums]_vars
  /\ [](scan.status = "printed" =>
          /\ PrintsWhatIsLeft
          /\ \A k \in 1..Len(scan.all_channels) : HoldsNonzero(k))

\* a report over two energies or more: the column of a final state that
\* sums to zero was erased, and a column that was kept shows 0.000000 in
\* every row
C23_Witness ==
  /\ scan.status = "printed"
  /\ Len(scan.rows) >= 2
  /\ \E nm \in DOMAIN xs_dump.outgoing_total_mass :
        nm # TotalName /\ nm \notin DOMAIN xs_dump.columns
  /\ \E k \in 1..Len(scan.all_channels) :
        /\ scan.all_channels[k] # TotalName
        /\ PrintedAllZero(k)
        /\ HoldsNonzero(k)
  /\ \E k \in 1..Len(scan.all_channels) : ~PrintedAllZero(k)

=============================================================================
